---- MODULE Spec2Model ----
(***************************************************************************)
(* Model of the caloria_app Streamlit application (src/app_calorias.py).   *)
(*                                                                         *)
(* Python floats are modelled as exact rationals <<n, d>> in lowest terms  *)
(* with d > 0, so that equalities between formulas are decided exactly.    *)
(* None is the string "None" where the other values are strings, and the   *)
(* empty tuple NoneR where they are numbers or tuples.                     *)
(***************************************************************************)
EXTENDS Integers, Sequences, FiniteSets, TLC

VARIABLES
    call,           \* the calculator helper last invoked and its arguments
    ret,            \* the value that invocation returned
    session_state,  \* st.session_state (the keys the model follows)
    food_diary,     \* rows of the food_diary table for the user and the date
    diario_out,     \* what the last script run rendered in aba_diario
    plano_out,      \* what the last script run computed and rendered in aba_plano
    profiles,       \* the row of the profiles table for the user
    plans,          \* rows of the plans table for the user
    cookies,        \* the browser's cookies under the prefix caloria_app_
    recipes,        \* rows of the recipes table
    tela_out,       \* what the last run drew before the tabs: wizard, sidebar
    ia_out,         \* what the last run's photo analysis block showed
    receitas_out,   \* what the last run of pages/06_Receitas.py rendered
    chamadas        \* per concurrent caller: its last calculator call and result

vars == <<call, ret, session_state, food_diary, diario_out, plano_out,
          profiles, plans, cookies, recipes, tela_out, ia_out, receitas_out,
          chamadas>>

None == "None"

NoneR == <<>>

----------------------------------------------------------------------------
(* Exact rational arithmetic standing for Python float arithmetic.         *)

Abs(x) == IF x < 0 THEN -x ELSE x

RECURSIVE Gcd(_, _)
Gcd(a, b) == IF b = 0 THEN a ELSE Gcd(b, a % b)

\* the rational n/d in lowest terms, d # 0
R(n, d) ==
    LET g == Gcd(Abs(n), Abs(d))
        s == IF d < 0 THEN -1 ELSE 1
    IN  <<(s * n) \div g, (s * d) \div g>>

Int2R(i) == <<i, 1>>

RMul(a, b) ==
    LET g1 == Gcd(Abs(a[1]), b[2])
        g2 == Gcd(Abs(b[1]), a[2])
    IN  <<(a[1] \div g1) * (b[1] \div g2), (a[2] \div g2) * (b[2] \div g1)>>

RDiv(a, b) == RMul(a, IF b[1] < 0 THEN <<-b[2], -b[1]>> ELSE <<b[2], b[1]>>)

RAdd(a, b) ==
    LET g == Gcd(a[2], b[2])
    IN  R(a[1] * (b[2] \div g) + b[1] * (a[2] \div g), (a[2] \div g) * b[2])

RNeg(a) == <<-a[1], a[2]>>

RSub(a, b) == RAdd(a, RNeg(b))

RLt(a, b) ==
    LET g == Gcd(a[2], b[2])
    IN  a[1] * (b[2] \div g) < b[1] * (a[2] \div g)

RLe(a, b) == ~RLt(b, a)

RAbs(a) == <<Abs(a[1]), a[2]>>

RMax(a, b) == IF RLt(a, b) THEN b ELSE a

RMin(a, b) == IF RLt(b, a) THEN b ELSE a

Zero == Int2R(0)

----------------------------------------------------------------------------
(* Onboarding helpers (src/app_calorias.py:145-159).                       *)

SEDENTARIO == "Sedentario (pouco ou nenhum exercicio)"
LEVE       == "Leve (1-3x/semana)"
MODERADO   == "Moderado (3-5x/semana)"
ALTO       == "Alto (6-7x/semana)"
ATLETA     == "Atleta/Extremo (2x/dia)"

Atividades == <<SEDENTARIO, LEVE, MODERADO, ALTO, ATLETA>>

\* variant: an unmapped key falls back to 1.0
Mut_fator_atividade(txt) ==
    CASE txt = SEDENTARIO -> R(12, 10)
      [] txt = LEVE       -> R(1375, 1000)
      [] txt = MODERADO   -> R(155, 100)
      [] txt = ALTO       -> R(1725, 1000)
      [] txt = ATLETA     -> R(19, 10)
      [] OTHER            -> Int2R(1)

\* dict.get(txt, 1.2) over the five-entry table
_fator_atividade(txt) ==
    CASE txt = SEDENTARIO -> R(12, 10)
      [] txt = LEVE       -> R(1375, 1000)
      [] txt = MODERADO   -> R(155, 100)
      [] txt = ALTO       -> R(1725, 1000)
      [] txt = ATLETA     -> R(19, 10)
      [] OTHER            -> R(12, 10)

\* variant: the female offset applied only to "Feminino"
Mut_bmr_mifflin(kg, cm, anos, sex) ==
    LET s == IF sex = "Feminino" THEN -161 ELSE 5
    IN  RAdd(RSub(RAdd(RMul(Int2R(10), kg), RMul(R(625, 100), cm)),
                  RMul(Int2R(5), Int2R(anos))),
             Int2R(s))

_bmr_mifflin(kg, cm, anos, sex) ==
    LET s == IF sex = "Masculino" THEN 5 ELSE -161
    IN  RAdd(RSub(RAdd(RMul(Int2R(10), kg), RMul(R(625, 100), cm)),
                  RMul(Int2R(5), Int2R(anos))),
             Int2R(s))

_tdee(kg, cm, anos, sex, atividade_txt) ==
    RMul(_bmr_mifflin(kg, cm, anos, sex), _fator_atividade(atividade_txt))

\* variant: the adjustment clamped to [-40, 40] before it is applied
Mut_calc_kcal_alvo(tdee_val, ajuste) ==
    RMul(tdee_val,
         RAdd(Int2R(1),
              RDiv(RMax(Int2R(-40), RMin(Int2R(40), ajuste)), Int2R(100))))

\* kcal_alvo = tdee_val * (1 + ajuste / 100.0), at lines 237 and 1799
calc_kcal_alvo(tdee_val, ajuste) ==
    RMul(tdee_val, RAdd(Int2R(1), RDiv(ajuste, Int2R(100))))

----------------------------------------------------------------------------
(* Helpers that aba_plano calls (src/app_calorias.py:1797-1813) and whose  *)
(* definitions are absent from the source tree; they follow section 4.1 of *)
(* the specification.                                                      *)

bmr_mifflin(peso, altura, idade, sexo) ==
    LET sex_offset == IF sexo = "Masculino" THEN 5 ELSE -161
    IN  RAdd(RSub(RAdd(RMul(Int2R(10), peso), RMul(R(625, 100), altura)),
                  RMul(Int2R(5), Int2R(idade))),
             Int2R(sex_offset))

tdee(peso, altura, idade, sexo, atividade) ==
    RMul(bmr_mifflin(peso, altura, idade, sexo), _fator_atividade(atividade))

agua_diaria_ml(peso) == RMul(peso, Int2R(35))

\* variant: the carbohydrate grams are not floored at zero
Mut_grams_from_gkg(peso, p_gkg, f_gkg, kcal_alvo) ==
    LET protein_g == RMul(peso, p_gkg)
        fat_g     == RMul(peso, f_gkg)
        remaining == RSub(kcal_alvo,
                          RAdd(RMul(protein_g, Int2R(4)), RMul(fat_g, Int2R(9))))
    IN  <<protein_g, RDiv(remaining, Int2R(4)), fat_g, remaining>>

\* returns <<protein_g, carb_g, fat_g, leftover_kcal>>
grams_from_gkg(peso, p_gkg, f_gkg, kcal_alvo) ==
    LET protein_g == RMul(peso, p_gkg)
        fat_g     == RMul(peso, f_gkg)
        remaining == RSub(kcal_alvo,
                          RAdd(RMul(protein_g, Int2R(4)), RMul(fat_g, Int2R(9))))
        carb_g    == RMax(Zero, RDiv(remaining, Int2R(4)))
    IN  <<protein_g, carb_g, fat_g, remaining>>

\* variant: percentages above a sum of 100 are left as they are
Mut_normalized_pcts(p_pct, c_pct, f_pct) ==
    LET soma == RAdd(RAdd(p_pct, c_pct), f_pct)
    IN  IF RLt(R(1, 100), RSub(Int2R(100), soma))
        THEN <<RMul(RDiv(p_pct, soma), Int2R(100)),
               RMul(RDiv(c_pct, soma), Int2R(100)),
               RMul(RDiv(f_pct, soma), Int2R(100))>>
        ELSE <<p_pct, c_pct, f_pct>>

\* the percentages the conversion uses: normalized unless they sum to 100
\* within the 0.01 tolerance
normalized_pcts(p_pct, c_pct, f_pct) ==
    LET soma == RAdd(RAdd(p_pct, c_pct), f_pct)
    IN  IF RLt(R(1, 100), RAbs(RSub(soma, Int2R(100))))
        THEN <<RMul(RDiv(p_pct, soma), Int2R(100)),
               RMul(RDiv(c_pct, soma), Int2R(100)),
               RMul(RDiv(f_pct, soma), Int2R(100))>>
        ELSE <<p_pct, c_pct, f_pct>>

\* variant: fat converted at 4 kcal per gram
Mut_kcal_to_macros_grams(kcal, p_pct, c_pct, f_pct) ==
    IF RAdd(RAdd(p_pct, c_pct), f_pct) = Zero
    THEN [raised |-> "InvalidInput", val |-> NoneR]
    ELSE LET n == normalized_pcts(p_pct, c_pct, f_pct)
             g(pct, kcal_per_gram) ==
                 RDiv(RMul(kcal, RDiv(pct, Int2R(100))), Int2R(kcal_per_gram))
         IN  [raised |-> None,
              val |-> <<g(n[1], 4), g(n[2], 4), g(n[3], 4), n>>]

\* returns [raised |-> "InvalidInput"] when the percentages sum to zero, and
\* otherwise [raised |-> None, val |-> <<g_p, g_c, g_f, <<pN, cN, fN>>>>]
kcal_to_macros_grams(kcal, p_pct, c_pct, f_pct) ==
    IF RAdd(RAdd(p_pct, c_pct), f_pct) = Zero
    THEN [raised |-> "InvalidInput", val |-> NoneR]
    ELSE LET n == normalized_pcts(p_pct, c_pct, f_pct)
             g(pct, kcal_per_gram) ==
                 RDiv(RMul(kcal, RDiv(pct, Int2R(100))), Int2R(kcal_per_gram))
         IN  [raised |-> None,
              val |-> <<g(n[1], 4), g(n[2], 4), g(n[3], 9), n>>]

----------------------------------------------------------------------------
(* aba_plano: the block under "if calcular:" (src/app_calorias.py:1794-1854) *)

\* f"{x:.1f}": x rounded to tenths, ties to even; the result counts tenths
Fmt1(x) ==
    LET t == RMul(x, Int2R(10))
        q == t[1] \div t[2]
        r == t[1] - q * t[2]
    IN  IF 2 * r < t[2] THEN q
        ELSE IF 2 * r > t[2] THEN q + 1
        ELSE IF q % 2 = 0 THEN q ELSE q + 1

AVISO_CARBO == "calorias alvo insuficientes para carboidratos (carbo zerado)"

INFO_PREENCHA == "Preencha os dados e clique em Calcular"

\* variant: the distance from 100 taken without abs()
Mut_avisos_normalizacao(p_pct, c_pct, f_pct, pcts) ==
    LET soma == RAdd(RAdd(p_pct, c_pct), f_pct)
    IN  IF RLt(R(1, 100), RSub(soma, Int2R(100)))
        THEN << <<"Normalizadas", Fmt1(soma),
                  Fmt1(pcts[1]), Fmt1(pcts[2]), Fmt1(pcts[3])>> >>
        ELSE <<>>

\* lines 1806-1809: the st.info notices of the percentage branch
avisos_normalizacao(p_pct, c_pct, f_pct, pcts) ==
    LET soma == RAdd(RAdd(p_pct, c_pct), f_pct)
    IN  IF RLt(R(1, 100), RAbs(RSub(soma, Int2R(100))))
        THEN << <<"Normalizadas", Fmt1(soma),
                  Fmt1(pcts[1]), Fmt1(pcts[2]), Fmt1(pcts[3])>> >>
        ELSE <<>>

\* lines 1815-1818: the warnings collected in avisos by the g/kg branch
avisos_gkg(kcal_rest) ==
    IF RLt(kcal_rest, Zero) THEN <<AVISO_CARBO>> ELSE <<>>

\* variant: fat counted at 4 kcal per gram
Mut_kcal_macros(prot_g, carb_g, gord_g) ==
    [kcal_p |-> RMul(prot_g, Int2R(4)),
     kcal_c |-> RMul(carb_g, Int2R(4)),
     kcal_f |-> RMul(gord_g, Int2R(4))]

\* lines 1840-1842
kcal_macros(prot_g, carb_g, gord_g) ==
    [kcal_p |-> RMul(prot_g, Int2R(4)),
     kcal_c |-> RMul(carb_g, Int2R(4)),
     kcal_f |-> RMul(gord_g, Int2R(9))]

KCAL_NONE == [kcal_p |-> NoneR, kcal_c |-> NoneR, kcal_f |-> NoneR]

CUT        == "Cut (deficit)"
MANUTENCAO == "Manutencao"
BULK       == "Bulk (superavit)"

\* variant: the deficit default is -25
Mut_ajuste_padrao(objetivo) ==
    CASE objetivo = CUT        -> -25
      [] objetivo = MANUTENCAO -> 0
      [] objetivo = BULK       -> 15

\* lines 1749-1751: the dict indexed by the selected goal
ajuste_padrao(objetivo) ==
    CASE objetivo = CUT        -> -20
      [] objetivo = MANUTENCAO -> 0
      [] objetivo = BULK       -> 15

\* st.slider with step 1: the default value while the user has not moved it
\* (escolha = <<>>), and otherwise the position asked for, which the widget
\* keeps within [min_value, max_value]
st_slider(min_value, max_value, value, escolha) ==
    IF escolha = <<>> THEN value
    ELSE IF escolha[1] < min_value THEN min_value
    ELSE IF escolha[1] > max_value THEN max_value
    ELSE escolha[1]

\* lines 1752-1759
slider_ajuste(objetivo, escolha) ==
    st_slider(-40, 40, ajuste_padrao(objetivo), escolha)

\* lines 1795-1800: the values computed before the macro method is applied
plano_base(f) ==
    LET tdee_val == tdee(f.peso, f.altura, f.idade, f.sexo, f.atividade)
    IN  [raised |-> None,
         ajuste_padrao |-> ajuste_padrao(f.objetivo),
         bmr |-> bmr_mifflin(f.peso, f.altura, f.idade, f.sexo),
         tdee_val |-> tdee_val,
         kcal_alvo |-> calc_kcal_alvo(tdee_val, Int2R(f.ajuste_percent)),
         agua |-> agua_diaria_ml(f.peso),
         prot_g |-> NoneR, carb_g |-> NoneR, gord_g |-> NoneR,
         kcal_rest |-> NoneR, pcts |-> NoneR,
         infos |-> <<>>, avisos |-> <<>>, kcal |-> KCAL_NONE]

\* what is left of the run's values when a helper raised: nothing is shown
RES_NONE ==
    [raised |-> None, ajuste_padrao |-> 0, bmr |-> NoneR, tdee_val |-> NoneR, kcal_alvo |-> NoneR,
     agua |-> NoneR, prot_g |-> NoneR, carb_g |-> NoneR, gord_g |-> NoneR,
     kcal_rest |-> NoneR, pcts |-> NoneR, infos |-> <<>>, avisos |-> <<>>,
     kcal |-> KCAL_NONE]

\* variant: the exception of the helper is caught and zero grams are used
Mut_plano_pct(f, base, r) ==
    IF r.raised # None
    THEN [base EXCEPT !.prot_g = Zero, !.carb_g = Zero, !.gord_g = Zero,
                      !.pcts = <<Zero, Zero, Zero>>,
                      !.kcal = kcal_macros(Zero, Zero, Zero)]
    ELSE [base EXCEPT
            !.prot_g = r.val[1], !.carb_g = r.val[2], !.gord_g = r.val[3],
            !.pcts = r.val[4],
            !.infos = avisos_normalizacao(f.p_pct, f.c_pct, f.f_pct, r.val[4]),
            !.kcal = kcal_macros(r.val[1], r.val[2], r.val[3])]

\* lines 1802-1810, r being what kcal_to_macros_grams returned or raised;
\* the call is not wrapped in try/except, so its exception leaves the block
plano_pct(f, base, r) ==
    IF r.raised # None
    THEN [RES_NONE EXCEPT !.raised = r.raised]
    ELSE [base EXCEPT
            !.prot_g = r.val[1], !.carb_g = r.val[2], !.gord_g = r.val[3],
            !.pcts = r.val[4],
            !.infos = avisos_normalizacao(f.p_pct, f.c_pct, f.f_pct, r.val[4]),
            !.kcal = kcal_macros(r.val[1], r.val[2], r.val[3])]

Mut_plano_gkg(base, g) ==
    [base EXCEPT
        !.prot_g = g[1], !.carb_g = g[2], !.gord_g = g[3], !.kcal_rest = g[4],
        !.avisos = avisos_gkg(g[4]),
        !.kcal = kcal_macros(g[1], RDiv(g[4], Int2R(4)), g[3])]

\* lines 1811-1818, g being what grams_from_gkg returned
plano_gkg(base, g) ==
    [base EXCEPT
        !.prot_g = g[1], !.carb_g = g[2], !.gord_g = g[3], !.kcal_rest = g[4],
        !.avisos = avisos_gkg(g[4]),
        !.kcal = kcal_macros(g[1], g[2], g[3])]

\* the values the block computes from the submitted form f; raised # None
\* when a helper raised, in which case nothing after the call has run
aba_plano_calc(f, base) ==
    IF f.metodo_macros = "Por %"
    THEN plano_pct(f, base,
                   kcal_to_macros_grams(base.kcal_alvo, f.p_pct, f.c_pct, f.f_pct))
    ELSE plano_gkg(base, grams_from_gkg(f.peso, f.p_gkg, f.f_gkg, base.kcal_alvo))

\* round(x) and round(x, 0): x rounded to an integer, ties to even
Round0(x) ==
    LET q == x[1] \div x[2]
        r == x[1] - q * x[2]
    IN  IF 2 * r < x[2] THEN q
        ELSE IF 2 * r > x[2] THEN q + 1
        ELSE IF q % 2 = 0 THEN q ELSE q + 1

\* round(x, 2) and f"{x:.2f}": the result counts hundredths
Round2(x) == Round0(RMul(x, Int2R(100)))

METRICAS_NONE == [agua_l |-> 0, kcal_p |-> 0, kcal_c |-> 0, kcal_f |-> 0]

\* lines 1834 and 1846-1850: the water in litres (":,.2f") and the calorie
\* equivalents shown with the three macro metrics (":,.0f")
metricas(r) ==
    [agua_l |-> Round2(RDiv(r.agua, Int2R(1000))),
     kcal_p |-> Round0(r.kcal.kcal_p),
     kcal_c |-> Round0(r.kcal.kcal_c),
     kcal_f |-> Round0(r.kcal.kcal_f)]

RESUMO_NONE ==
    [exporta |-> FALSE, bmr |-> 0, tdee |-> 0, kcal_alvo |-> 0,
     ajuste_percent |-> 0, g_prot |-> 0, g_carb |-> 0, g_gord |-> 0,
     kcal_prot |-> 0, kcal_carb |-> 0, kcal_gord |-> 0, agua_l |-> 0,
     avisos |-> <<>>]

\* variant: the exported calories are computed from the rounded grams
Mut_resumo(f, r) ==
    [exporta |-> TRUE,
     bmr |-> Round0(r.bmr), tdee |-> Round0(r.tdee_val),
     kcal_alvo |-> Round0(r.kcal_alvo),
     ajuste_percent |-> f.ajuste_percent,
     g_prot |-> Round0(r.prot_g), g_carb |-> Round0(r.carb_g),
     g_gord |-> Round0(r.gord_g),
     kcal_prot |-> Round0(r.prot_g) * 4,
     kcal_carb |-> Round0(r.carb_g) * 4,
     kcal_gord |-> Round0(r.gord_g) * 9,
     agua_l |-> Round2(RDiv(r.agua, Int2R(1000))),
     avisos |-> r.avisos]

\* lines 1859-1878: the summary handed to the PDF export
resumo(f, r) ==
    [exporta |-> TRUE,
     bmr |-> Round0(r.bmr), tdee |-> Round0(r.tdee_val),
     kcal_alvo |-> Round0(r.kcal_alvo),
     ajuste_percent |-> f.ajuste_percent,
     g_prot |-> Round0(r.prot_g), g_carb |-> Round0(r.carb_g),
     g_gord |-> Round0(r.gord_g),
     kcal_prot |-> Round0(r.kcal.kcal_p),
     kcal_carb |-> Round0(r.kcal.kcal_c),
     kcal_gord |-> Round0(r.kcal.kcal_f),
     agua_l |-> Round2(RDiv(r.agua, Int2R(1000))),
     avisos |-> r.avisos]

\* lines 1826-1854: the results with their notices and warnings, or the
\* uncaught exception
mostra_resultados(f, r) ==
    [visivel |-> TRUE, calcular |-> TRUE, form |-> f,
     res |-> r, exception |-> r.raised,
     infos |-> r.infos, warnings |-> r.avisos,
     metricas |-> IF r.raised = None THEN metricas(r) ELSE METRICAS_NONE,
     resumo |-> RESUMO_NONE, salvar |-> FALSE, msgs |-> <<>>]

FORM_NONE ==
    [peso |-> NoneR, altura |-> NoneR, idade |-> 0, sexo |-> None,
     atividade |-> None, objetivo |-> None, ajuste_escolha |-> <<>>,
     ajuste_percent |-> 0, metodo_macros |-> None,
     p_gkg |-> NoneR, f_gkg |-> NoneR, p_pct |-> NoneR, c_pct |-> NoneR,
     f_pct |-> NoneR]

\* what aba_plano shows in a run: the results with their notices and
\* warnings when "Calcular" was submitted, the uncaught exception when a
\* helper raised, and otherwise the hint of lines 1941-1944
render_plano(calcular, f) ==
    IF ~calcular
    THEN [visivel |-> TRUE, calcular |-> FALSE, form |-> FORM_NONE,
          res |-> RES_NONE, exception |-> None,
          infos |-> <<INFO_PREENCHA>>, warnings |-> <<>>,
          metricas |-> METRICAS_NONE, resumo |-> RESUMO_NONE,
          salvar |-> FALSE, msgs |-> <<>>]
    ELSE mostra_resultados(f, aba_plano_calc(f, plano_base(f)))

PLANO_SALVO == "Plano salvo com sucesso!"

ERRO_SALVAR_PLANO == "Erro ao salvar plano"

\* lines 1899-1913: the row of the plans table
insert_data(f, r) ==
    [weight_kg |-> f.peso, height_cm |-> f.altura, age_years |-> f.idade,
     sex |-> f.sexo, activity |-> f.atividade,
     bmr_kcal |-> r.bmr, tdee_kcal |-> r.tdee_val, target_kcal |-> r.kcal_alvo,
     protein_g |-> r.prot_g, carbs_g |-> r.carb_g, fats_g |-> r.gord_g,
     water_l |-> RDiv(r.agua, Int2R(1000))]

\* lines 1856-1917, reached only inside "if calcular:" and when no helper
\* raised: the export summary (when reportlab was imported) and the save
\* button with its handler; returns the page and the plans table
exporta_e_salva(out, logged, reportlab, clicou_salvar, insert_ok, tabela) ==
    IF ~out.calcular \/ out.exception # None
    THEN [out |-> out, plans |-> tabela]
    ELSE LET o1 == [out EXCEPT
                      !.resumo = IF reportlab THEN resumo(out.form, out.res)
                                 ELSE RESUMO_NONE,
                      !.salvar = logged]
         IN  IF logged /\ clicou_salvar
             THEN IF insert_ok
                  THEN [out |-> [o1 EXCEPT !.msgs = <<PLANO_SALVO>>],
                        plans |-> Append(tabela, insert_data(out.form, out.res))]
                  ELSE [out |-> [o1 EXCEPT !.msgs = <<ERRO_SALVAR_PLANO>>],
                        plans |-> tabela]
             ELSE [out |-> o1, plans |-> tabela]

\* lines 1820-1824: the targets kept in the session for the diary
salva_metas(ss, out) ==
    IF out.calcular /\ out.exception = None
    THEN [ss EXCEPT !.kcal_alvo = out.res.kcal_alvo,
                    !.prot_g = out.res.prot_g,
                    !.carb_g = out.res.carb_g,
                    !.gord_g = out.res.gord_g]
    ELSE ss

----------------------------------------------------------------------------
(* aba_diario: quick add, listing and progress bars                        *)
(* (src/app_calorias.py:834-837, 880-926, 1219-1277)                       *)

\* lines 882-894, per 100 g: <<kcal, p, c, f>>
_LOCAL_DB ==
    [food \in {"frango grelhado", "arroz branco", "arroz integral",
               "feijao cozido", "batata doce coz.", "ovo cozido",
               "aveia (flocos)", "abacate", "banana prata", "pao frances"} |->
        CASE food = "frango grelhado"  -> <<Int2R(165), Int2R(31), Zero, R(36, 10)>>
          [] food = "arroz branco"     -> <<Int2R(130), R(27, 10), Int2R(28), R(3, 10)>>
          [] food = "arroz integral"   -> <<Int2R(111), R(26, 10), Int2R(23), R(9, 10)>>
          [] food = "feijao cozido"    -> <<Int2R(95), Int2R(6), Int2R(17), R(5, 10)>>
          [] food = "batata doce coz." -> <<Int2R(86), R(16, 10), Int2R(20), R(1, 10)>>
          [] food = "ovo cozido"       -> <<Int2R(155), Int2R(13), R(11, 10), Int2R(11)>>
          [] food = "aveia (flocos)"   -> <<Int2R(389), R(169, 10), Int2R(66), R(69, 10)>>
          [] food = "abacate"          -> <<Int2R(160), Int2R(2), Int2R(9), Int2R(15)>>
          [] food = "banana prata"     -> <<Int2R(89), R(11, 10), Int2R(23), R(3, 10)>>
          [] food = "pao frances"      -> <<Int2R(270), Int2R(9), Int2R(57), Int2R(3)>>]

\* lines 905-923: the row the quick-add button inserts
quick_row(food_q, grams_q) ==
    LET info   == _LOCAL_DB[food_q]
        factor == RDiv(grams_q, Int2R(100))
    IN  [description |-> food_q, qty_g |-> grams_q,
         kcal |-> RMul(info[1], factor),
         protein_g |-> RMul(info[2], factor),
         carbs_g |-> RMul(info[3], factor),
         fat_g |-> RMul(info[4], factor),
         photo_path |-> None]

\* the widgets of the form "food_form" (lines 1116-1172) at their defaults
MEAL_NONE ==
    [description |-> "", qty_g |-> Zero, protein_g |-> Zero, carbs_g |-> Zero,
     fat_g |-> Zero, kcal |-> Zero, photo_file |-> None]

\* df[col].fillna(0).sum()
RECURSIVE total_col(_, _)
total_col(rows, col) ==
    IF rows = <<>> THEN Zero
    ELSE RAdd(IF Head(rows)[col] = NoneR THEN Zero ELSE Head(rows)[col],
              total_col(Tail(rows), col))

\* lines 1262-1277: the four st.progress calls, in order; the first target
\* equal to 0.0 raises ZeroDivisionError and ends the run
RECURSIVE barras(_, _)
barras(totais, metas) ==
    IF totais = <<>> THEN [progresso |-> <<>>, exception |-> None]
    ELSE IF Head(metas) = Zero
         THEN [progresso |-> <<>>, exception |-> "ZeroDivisionError"]
         ELSE LET rest == barras(Tail(totais), Tail(metas))
              IN  [progresso |->
                       <<RMin(RDiv(Head(totais), Head(metas)), Int2R(1))>>
                           \o rest.progresso,
                   exception |-> rest.exception]

\* what aba_diario lists for the rows read (lista_ok = FALSE: the select
\* raised and rows = [])
render_diario(ss, rows_db, lista_ok) ==
    LET rows == IF lista_ok THEN rows_db ELSE <<>>
        vazio == [visivel |-> TRUE,
                  login |-> TRUE, n_rows |-> Len(rows), usa_metas |-> FALSE,
                  metas |-> NoneR, progresso |-> <<>>, exception |-> None,
                  warnings |-> <<>>, meal |-> MEAL_NONE, foto |-> None]
    IN  IF ss.sb_session = None THEN [vazio EXCEPT !.login = FALSE]
        ELSE IF rows = <<>> THEN vazio
        ELSE LET totais == <<total_col(rows, "kcal"), total_col(rows, "protein_g"),
                             total_col(rows, "carbs_g"), total_col(rows, "fat_g")>>
                 metas  == <<ss.kcal_alvo, ss.prot_g, ss.carb_g, ss.gord_g>>
             IN  IF \E i \in 1..4 : metas[i] = NoneR THEN vazio
                 ELSE LET b == barras(totais, metas)
                      IN  [vazio EXCEPT !.usa_metas = TRUE, !.metas = metas,
                                        !.progresso = b.progresso,
                                        !.exception = b.exception]

----------------------------------------------------------------------------
(* Photo analysis (src/app_calorias.py:434-503 and 928-1113).              *)

\* What requests.post and the response can be.  http: "ok", "timeout" (post
\* raises), "erro_http" (raise_for_status raises), "corpo_invalido" (resp.json
\* raises).  campos: data has choices[0].message.content.  forma of the
\* content: "json" (json.loads accepts it), "texto_com_json" (prose around one
\* JSON object), "texto_sem_json" (no braces), "texto_com_chaves" (braces
\* around something that is not JSON), "nulo" (content is null).  tipo of the
\* parsed value: "objeto", "lista", "numero".  items_tipo of its "items":
\* "ausente", "null", "lista", "string", "numero", "objeto" (the last three
\* non-empty and non-zero).
RESP_BASE ==
    [http |-> "ok", campos |-> TRUE, forma |-> "json", tipo |-> "objeto",
     items_tipo |-> "lista", items |-> <<>>]

\* an element of "items": dict says whether it is a JSON object; food "" when
\* the key is missing or null; grams and confidence NoneR when missing or
\* null; grams_num FALSE when grams is text that float() rejects
ITEM_FRANGO ==
    [dict |-> TRUE, food |-> "frango grelhado", grams |-> Int2R(150),
     grams_num |-> TRUE, confidence |-> R(8, 10)]

\* lines 494-499: the loop over items; the first element that is not a dict,
\* or whose grams float() rejects, raises
RECURSIVE itens_validos(_)
itens_validos(items) ==
    IF items = <<>> THEN [raised |-> None, val |-> <<>>]
    ELSE LET it == Head(items)
         IN  IF ~it.dict THEN [raised |-> "AttributeError", val |-> <<>>]
             ELSE IF ~it.grams_num THEN [raised |-> "ValueError", val |-> <<>>]
             ELSE LET rest  == itens_validos(Tail(items))
                      grams == IF it.grams = NoneR THEN Zero ELSE it.grams
                      conf  == IF it.confidence = NoneR THEN Zero
                               ELSE it.confidence
                      um    == [food |-> it.food,
                                grams |-> RMax(Zero, grams),
                                confidence |-> RMax(Zero, RMin(conf, Int2R(1)))]
                  IN  IF rest.raised # None THEN rest
                      ELSE [raised |-> None,
                            val |-> (IF it.food # "" THEN <<um>> ELSE <<>>)
                                        \o rest.val]

\* lines 477-500: the body of the try block, with the exception it raises
detect_try(resp) ==
    LET falha(e) == [raised |-> e, val |-> <<>>]
    IN  IF resp.http = "timeout" THEN falha("Timeout")
        ELSE IF resp.http = "erro_http" THEN falha("HTTPError")
        ELSE IF resp.http = "corpo_invalido" THEN falha("JSONDecodeError")
        ELSE IF ~resp.campos THEN falha("KeyError")
        \* json.loads(None) raises, and so does re.search on None
        ELSE IF resp.forma = "nulo" THEN falha("TypeError")
        \* the regex finds braces and json.loads rejects what they hold
        ELSE IF resp.forma = "texto_com_chaves" THEN falha("JSONDecodeError")
        \* no match: parsed = {}
        ELSE IF resp.forma = "texto_sem_json"
             THEN [raised |-> None, val |-> <<>>]
        \* json.loads gave a list or a number: parsed.get raises
        ELSE IF resp.tipo # "objeto" THEN falha("AttributeError")
        \* parsed.get("items") or []
        ELSE IF resp.items_tipo \in {"ausente", "null"}
             THEN [raised |-> None, val |-> <<>>]
        \* a number is not iterable
        ELSE IF resp.items_tipo = "numero" THEN falha("TypeError")
        \* the characters of a string and the keys of a dict have no .get
        ELSE IF resp.items_tipo \in {"string", "objeto"}
             THEN falha("AttributeError")
        ELSE itens_validos(resp.items)

\* variant: only the exceptions of the HTTP call are caught
Mut_ai_detect_foods_from_image_openrouter(api_key, resp) ==
    IF api_key \in {None, ""} THEN [raised |-> None, val |-> <<>>]
    ELSE LET r == detect_try(resp)
         IN  IF r.raised \in {"Timeout", "HTTPError"}
             THEN [raised |-> None, val |-> <<>>]
             ELSE r

\* lines 434-503; raised is the exception that reaches the caller
ai_detect_foods_from_image_openrouter(api_key, resp) ==
    IF api_key \in {None, ""} THEN [raised |-> None, val |-> <<>>]
    ELSE LET r == detect_try(resp)
         IN  IF r.raised # None THEN [raised |-> None, val |-> <<>>]
             ELSE r

\* Helpers that _process_and_save calls (lines 958 and 962) and whose
\* definitions are absent from the source tree: a key-value lookup of the
\* nutrients per 100 g, and their scaling to the grams eaten.
lookup_macros_per_100g(food) ==
    IF food \in DOMAIN _LOCAL_DB THEN _LOCAL_DB[food] ELSE NoneR

scale_macros(per100, grams) ==
    LET factor == RDiv(grams, Int2R(100))
    IN  [kcal |-> RMul(per100[1], factor), p |-> RMul(per100[2], factor),
         c |-> RMul(per100[3], factor), f |-> RMul(per100[4], factor)]

\* lines 957-985 and 996-1007: the diary row of one detected item
linha_ia(it, ai_path) ==
    LET per100 == lookup_macros_per_100g(it.food)
        mac    == scale_macros(per100, it.grams)
        r1(x)  == R(Fmt1(x), 10)
    IN  [description |-> it.food,
         qty_g |-> Int2R(Round0(it.grams)),
         kcal |-> IF per100 = NoneR THEN NoneR ELSE Int2R(Round0(mac.kcal)),
         protein_g |-> IF per100 = NoneR THEN NoneR ELSE r1(mac.p),
         carbs_g |-> IF per100 = NoneR THEN NoneR ELSE r1(mac.c),
         fat_g |-> IF per100 = NoneR THEN NoneR ELSE r1(mac.f),
         photo_path |-> ai_path]

linhas_ia(items, ai_path) == [i \in 1..Len(items) |-> linha_ia(items[i], ai_path)]

AVISO_IA == "Nao consegui identificar nada com confianca suficiente"

IA_NONE ==
    [ativa |-> FALSE, foto |-> FALSE, auto |-> FALSE, chamou |-> FALSE,
     resp |-> RESP_BASE, items |-> <<>>, warnings |-> <<>>, editor |-> FALSE,
     inseridos |-> 0, erro |-> FALSE, exception |-> None]

\* lines 948-1073; det is what ai_detect_foods_from_image_openrouter
\* returned or raised, adicionar the click of the button drawn under the
\* editor; returns the rows of the table and what was shown
_process_and_save(det, ai_path, auto, adicionar, insert_ok, rows, out) ==
    IF det.raised # None
    THEN [rows |-> rows, out |-> [out EXCEPT !.exception = det.raised]]
    ELSE IF det.val = <<>>
    THEN [rows |-> rows, out |-> [out EXCEPT !.warnings = <<AVISO_IA>>]]
    ELSE LET novas == linhas_ia(det.val, ai_path)
             o1    == [out EXCEPT !.items = det.val]
         IN  IF auto
             THEN IF insert_ok
                  THEN [rows |-> rows \o novas,
                        out |-> [o1 EXCEPT !.inseridos = Len(novas)]]
                  ELSE [rows |-> rows, out |-> [o1 EXCEPT !.erro = TRUE]]
             ELSE IF adicionar
                  THEN IF insert_ok
                       THEN [rows |-> rows \o novas,
                             out |-> [o1 EXCEPT !.editor = TRUE,
                                                !.inseridos = Len(novas)]]
                       ELSE [rows |-> rows,
                             out |-> [o1 EXCEPT !.editor = TRUE, !.erro = TRUE]]
                  ELSE [rows |-> rows, out |-> [o1 EXCEPT !.editor = TRUE]]

API_KEY == "sk-or-1"

AI_PATH == "S1/ai-meals/prato.jpg"

\* lines 929-1113, for a logged-in user; ev.ia_ativa: ENABLE_AI is "true" and
\* the key is set; ev.foto: the camera or the uploader holds an image
bloco_ia(ev, rows) ==
    IF ~ev.ia_ativa THEN [rows |-> rows, out |-> IA_NONE]
    ELSE LET o0 == [IA_NONE EXCEPT !.ativa = TRUE, !.foto = ev.foto,
                                   !.auto = ev.auto]
         IN  IF ~ev.foto THEN [rows |-> rows, out |-> o0]
             ELSE IF ~ev.upload_ok
             THEN [rows |-> rows, out |-> [o0 EXCEPT !.erro = TRUE]]
             ELSE IF ev.auto \/ ev.botao = "Analisar com IA"
             THEN _process_and_save(
                      ai_detect_foods_from_image_openrouter(API_KEY, ev.resp),
                      AI_PATH, ev.auto, ev.botao = "Adicionar itens",
                      ev.insert_ok, rows,
                      [o0 EXCEPT !.chamou = TRUE, !.resp = ev.resp])
             ELSE [rows |-> rows, out |-> o0]

----------------------------------------------------------------------------
(* The meal form of the diary (src/app_calorias.py:1116-1218).             *)

\* str.strip() on the descriptions the model enters
strip(txt) ==
    CASE txt = "  "      -> ""
      [] txt = " arroz " -> "arroz"
      [] txt = " tempo " -> "tempo"
      [] OTHER           -> txt

\* variant: the entered kcal is ignored and the macros always decide
Mut_kcal_val(kcal, protein_g, carbs_g, fat_g) ==
    RAdd(RAdd(RMul(protein_g, Int2R(4)), RMul(carbs_g, Int2R(4))),
         RMul(fat_g, Int2R(9)))

\* lines 1176-1180
kcal_val(kcal, protein_g, carbs_g, fat_g) ==
    IF kcal # Zero /\ RLt(Zero, kcal) THEN kcal
    ELSE RAdd(RAdd(RMul(protein_g, Int2R(4)), RMul(carbs_g, Int2R(4))),
              RMul(fat_g, Int2R(9)))

\* "float(x) if x else None"
float_or_none(x) == IF x # Zero THEN x ELSE NoneR

\* lines 1181-1195: the upload of the photo of the meal, attempted only
\* when the form holds a file; a failure is caught and shown as a warning
upload_foto(m, upload_ok) ==
    IF m.photo_file = None THEN None
    ELSE IF upload_ok THEN "ok" ELSE "falhou"

\* lines 1181-1214: the row inserted for the submitted form m; the path of
\* the photo is set before the upload is attempted
meal_row(m) ==
    [description |-> IF strip(m.description) # "" THEN strip(m.description)
                     ELSE None,
     qty_g |-> float_or_none(m.qty_g),
     kcal |-> float_or_none(kcal_val(m.kcal, m.protein_g, m.carbs_g, m.fat_g)),
     protein_g |-> float_or_none(m.protein_g),
     carbs_g |-> float_or_none(m.carbs_g),
     fat_g |-> float_or_none(m.fat_g),
     photo_path |-> IF m.photo_file = None THEN None
                    ELSE "S1/meals/" \o m.photo_file]

----------------------------------------------------------------------------
(* Onboarding wizard (src/app_calorias.py:161-165 and 180-334).            *)

\* date.today(), as <<year, month, day>>
Hoje == <<2026, 11, 4>>

\* lines 161-165
_idade_from_dob(dob) ==
    IF dob = NoneR THEN 30
    ELSE LET antes == \/ Hoje[2] < dob[2]
                      \/ (Hoje[2] = dob[2] /\ Hoje[3] < dob[3])
         IN  Hoje[1] - dob[1] - (IF antes THEN 1 ELSE 0)

\* str(dob) and date.fromisoformat: the ISO text of a date
str_date(dob) == <<"iso">> \o dob

fromisoformat(txt) == Tail(txt)

EMAGRECER    == "Emagrecer"
GANHAR_MASSA == "Ganhar massa"

\* variant: the surplus goal estimated with +20
Mut_ajuste_onboarding(goal) ==
    CASE goal = EMAGRECER    -> -20
      [] goal = GANHAR_MASSA -> 20
      [] goal = MANUTENCAO   -> 0

\* line 236: the dict indexed by the goal
ajuste_onboarding(goal) ==
    CASE goal = EMAGRECER    -> -20
      [] goal = GANHAR_MASSA -> 15
      [] goal = MANUTENCAO   -> 0

\* variant: 30 ml per kg
Mut_agua_l(weight_kg) == RDiv(RMul(weight_kg, Int2R(30)), Int2R(1000))

\* line 238
agua_l(weight_kg) == RDiv(RMul(weight_kg, Int2R(35)), Int2R(1000))

EST_NONE ==
    [mostra |-> FALSE, weight_kg |-> NoneR, goal |-> None, bmr |-> NoneR,
     tdee_val |-> NoneR, ajuste |-> 0, kcal_alvo |-> NoneR, agua_l |-> NoneR,
     agua_fmt |-> 0]

\* lines 231-244: the estimates of step 4
estimativa_inicial(weight_kg, height_cm, dob, sex, atividade, goal) ==
    LET idade    == _idade_from_dob(IF dob # NoneR THEN dob ELSE <<1995, 1, 1>>)
        tdee_val == _tdee(weight_kg, height_cm, idade, sex, atividade)
        ajuste   == ajuste_onboarding(goal)
    IN  [mostra |-> TRUE, weight_kg |-> weight_kg, goal |-> goal,
         bmr |-> _bmr_mifflin(weight_kg, height_cm, idade, sex),
         tdee_val |-> tdee_val,
         ajuste |-> ajuste,
         kcal_alvo |-> calc_kcal_alvo(tdee_val, Int2R(ajuste)),
         agua_l |-> agua_l(weight_kg),
         agua_fmt |-> Round2(agua_l(weight_kg))]

\* the keys ob_name .. ob_obs of the session; saved = FALSE: none is set yet
OB_NONE ==
    [saved |-> FALSE, name |-> None, dob |-> NoneR, sex |-> None,
     h |-> NoneR, w |-> NoneR, act |-> None, goal |-> None,
     target |-> NoneR, obs |-> None]

\* a row of profiles as created at sign-up: every column but e-mail is null
PERFIL_NOVO ==
    [onboarding_done |-> FALSE, full_name |-> None, dob |-> NoneR,
     sex |-> None, height_cm |-> NoneR, weight_kg |-> NoneR, goal |-> None,
     target_weight_kg |-> NoneR, obstacles |-> None]

\* lines 644-648: the row read, or {} when the select raised
le_perfil(prof, perfil_ok) == [ok |-> perfil_ok, row |-> prof]

\* profile.get(k, default): the default only when the key is missing
pget(profile, k, default) == IF profile.ok THEN profile.row[k] ELSE default

\* "x or default"
num_or(x, default) == IF x = NoneR \/ x = Zero THEN default ELSE x

str_or(x, default) == IF x = None \/ x = "" THEN default ELSE x

\* what a run met: whether its session state held a session when it
\* started, the outcome of the restore, of the sign-in and of the sign-out
\* (None: not attempted), the "Lembrar meu login" box and the subscriptions
\* table
IO_NONE ==
    [sessao0 |-> FALSE, restore |-> None, sign_in |-> None,
     remember |-> TRUE, sub |-> "nenhuma", sign_out |-> None]

TELA_NONE ==
    [sessao |-> FALSE, onboarding_done |-> FALSE, wizard |-> FALSE,
     step |-> 0, estimativa |-> EST_NONE, sidebar |-> FALSE, tabs |-> FALSE,
     msgs |-> <<>>, botao |-> "", io |-> IO_NONE]

ONBOARDING_OK == "Onboarding concluido! Redirecionando"

ERRO_SALVAR == "Erro ao salvar"

\* lines 187-196 and the widgets of steps 2, 3 and 8: the local variables of
\* render_onboarding once the step's widgets (values ev.w) have been drawn
ob_locais(ss, profile, step, w) ==
    LET ob   == ss.ob
        dob0 == IF ob.saved /\ ob.dob # NoneR THEN ob.dob
                ELSE IF pget(profile, "dob", NoneR) # NoneR
                     THEN fromisoformat(pget(profile, "dob", NoneR))
                     ELSE NoneR
        w0   == IF ob.saved THEN ob.w
                ELSE num_or(pget(profile, "weight_kg", NoneR), Int2R(75))
    IN  [saved |-> TRUE,
         name |-> IF step = 2 THEN w.name
                  ELSE IF ob.saved THEN ob.name
                  ELSE pget(profile, "full_name", ""),
         dob |-> IF step = 2 THEN w.dob ELSE dob0,
         sex |-> IF step = 2 THEN w.sex
                 ELSE IF ob.saved THEN ob.sex
                 ELSE pget(profile, "sex", "Masculino"),
         h |-> IF step = 2 THEN w.h
               ELSE IF ob.saved THEN ob.h
               ELSE num_or(pget(profile, "height_cm", NoneR), Int2R(170)),
         w |-> IF step = 2 THEN w.w ELSE w0,
         act |-> IF step = 2 THEN w.act
                 ELSE IF ob.saved THEN ob.act ELSE MODERADO,
         goal |-> IF step = 3 THEN w.goal
                  ELSE IF ob.saved THEN ob.goal
                  ELSE str_or(pget(profile, "goal", None), EMAGRECER),
         target |-> IF step = 3 THEN w.target
                    ELSE IF ob.saved THEN ob.target
                    ELSE num_or(pget(profile, "target_weight_kg", NoneR),
                                RMax(RSub(w0, Int2R(5)), Int2R(50))),
         obs |-> IF step = 8 THEN w.obs
                 ELSE IF ob.saved THEN ob.obs
                 ELSE str_or(pget(profile, "obstacles", None), "")]

\* lines 319-329: the update of the row
payload_concluir(prof, l) ==
    [prof EXCEPT
        !.full_name = str_or(l.name, None),
        !.dob = IF l.dob # NoneR THEN str_date(l.dob) ELSE NoneR,
        !.sex = l.sex,
        !.height_cm = num_or(l.h, NoneR),
        !.weight_kg = num_or(l.w, NoneR),
        !.goal = l.goal,
        !.target_weight_kg = num_or(l.target, NoneR),
        !.obstacles = str_or(strip(l.obs), None),
        !.onboarding_done = TRUE]

\* variant: the step is reset and the page rerun also when the update raised
Mut_concluir(ss, prof, l, update_ok) ==
    IF update_ok
    THEN [ss |-> [ss EXCEPT !.ob_step = 1], prof |-> payload_concluir(prof, l),
          rerun |-> TRUE, msgs |-> <<ONBOARDING_OK>>]
    ELSE [ss |-> [ss EXCEPT !.ob_step = 1], prof |-> prof, rerun |-> TRUE,
          msgs |-> <<ERRO_SALVAR>>]

\* lines 316-334: the handler of "Concluir"
concluir(ss, prof, l, update_ok) ==
    IF update_ok
    THEN [ss |-> [ss EXCEPT !.ob_step = 1], prof |-> payload_concluir(prof, l),
          rerun |-> TRUE, msgs |-> <<ONBOARDING_OK>>]
    ELSE [ss |-> ss, prof |-> prof, rerun |-> FALSE, msgs |-> <<ERRO_SALVAR>>]

Mut_onboarding_botoes(ss, prof, ev, step, l, tela) ==
    IF ev.botao = "Voltar"
    THEN [ss |-> [ss EXCEPT !.ob = l, !.ob_step = step - 1], prof |-> prof,
          rerun |-> TRUE, tela |-> tela]
    ELSE IF step < 8 /\ ev.botao = "Proximo"
    THEN [ss |-> [ss EXCEPT !.ob = l, !.ob_step = step + 1], prof |-> prof,
          rerun |-> TRUE, tela |-> tela]
    ELSE IF step = 8 /\ ev.botao = "Concluir"
    THEN LET c == concluir(ss, prof, l, ev.update_ok)
         IN  [ss |-> c.ss, prof |-> c.prof, rerun |-> c.rerun,
              tela |-> [tela EXCEPT !.msgs = c.msgs]]
    ELSE [ss |-> ss, prof |-> prof, rerun |-> FALSE, tela |-> tela]

\* the navigation buttons of the wizard (lines 300-334), l being the values
\* of the inputs and tela what the step has drawn
onboarding_botoes(ss, prof, ev, step, l, tela) ==
    IF step > 1 /\ ev.botao = "Voltar"
    THEN [ss |-> [ss EXCEPT !.ob_step = step - 1], prof |-> prof,
          rerun |-> TRUE, tela |-> tela]
    ELSE IF step < 8 /\ ev.botao = "Proximo"
    THEN [ss |-> [ss EXCEPT !.ob = l, !.ob_step = step + 1], prof |-> prof,
          rerun |-> TRUE, tela |-> tela]
    ELSE IF step = 8 /\ ev.botao = "Concluir"
    THEN LET c == concluir(ss, prof, l, ev.update_ok)
         IN  [ss |-> c.ss, prof |-> c.prof, rerun |-> c.rerun,
              tela |-> [tela EXCEPT !.msgs = c.msgs]]
    ELSE [ss |-> ss, prof |-> prof, rerun |-> FALSE, tela |-> tela]

\* the step drawn (lines 203-298) with the inputs holding l, then the buttons
onboarding_passo(ss, prof, ev, step, l) ==
    onboarding_botoes(ss, prof, ev, step, l,
        [TELA_NONE EXCEPT
            !.sessao = TRUE, !.wizard = TRUE, !.step = step,
            !.botao = ev.botao,
            !.estimativa =
                IF step = 4
                THEN estimativa_inicial(l.w, l.h, l.dob, l.sex, l.act, l.goal)
                ELSE EST_NONE])

\* lines 180-334; prof is the row in the table, profile what the gate read,
\* ev.w the values of the step's widgets; returns the session, the row, the
\* rerun request and what was drawn
render_onboarding(ss0, prof, profile, ev) ==
    LET ss == IF ss0.ob_step = 0 THEN [ss0 EXCEPT !.ob_step = 1] ELSE ss0
    IN  onboarding_passo(ss, prof, ev, ss.ob_step,
                         ob_locais(ss, profile, ss.ob_step, ev.w))

----------------------------------------------------------------------------
(* Session restore from cookies and the sidebar: sign-up, login, logout    *)
(* and rehydration (src/app_calorias.py:347-396, 654-738).                 *)

\* the cookies of the browser; None stands for a cookie that is not there
COOKIES_VAZIOS ==
    [sb_refresh_token |-> None, sb_access_token |-> None, saved_email |-> None]

\* lines 528-546, sub being what the subscriptions table holds for the user:
\* the plan id of the active subscription, "nenhuma" when there is none,
\* "falha" when the select raises; returns the plan id or None
db_get_active_subscription(sub) ==
    IF sub \in {"nenhuma", "falha"} THEN None ELSE sub

\* lines 689-700 and 728-738
hidrata_plano(ss, sub) ==
    IF db_get_active_subscription(sub) # None
    THEN [ss EXCEPT !.plan_id = sub, !.plan_name = "Plano " \o sub,
                    !.plan_inicio = "2026-01-01", !.plan_fim = "2027-01-01"]
    ELSE [ss EXCEPT !.plan_id = "DISCIPULO",
                    !.plan_name = "Discipulo (3 meses)",
                    !.plan_inicio = None, !.plan_fim = None]

Mut_entrar(ss, ck, ev) ==
    CASE ev.sign_in = "raises" ->
            [ss |-> ss, cookies |-> ck, msgs |-> <<"Erro ao entrar">>]
      [] ev.sign_in = "sem_sessao" ->
            [ss |-> [ss EXCEPT !.sb_session = None], cookies |-> ck,
             msgs |-> <<"Login pendente">>]
      [] ev.sign_in = "sessao" ->
            [ss |-> hidrata_plano([ss EXCEPT !.sb_session = "S1",
                                             !.user_id = "u1",
                                             !.user_email = ev.email],
                                  ev.sub),
             cookies |-> [ck EXCEPT !.sb_refresh_token = "rt1",
                                    !.sb_access_token = "at1",
                                    !.saved_email = ev.email],
             msgs |-> <<"Login realizado!">>]

\* lines 670-704: the handler of "Entrar"; ev.sign_in is "sessao", "sem_sessao"
\* (res.session is None) or "raises".  db_upsert_profile writes only the id
\* and e-mail columns of the row, which the model does not follow.
entrar(ss, ck, ev) ==
    CASE ev.sign_in = "raises" ->
            [ss |-> ss, cookies |-> ck, msgs |-> <<"Erro ao entrar">>]
      [] ev.sign_in = "sem_sessao" ->
            [ss |-> [ss EXCEPT !.sb_session = None], cookies |-> ck,
             msgs |-> <<"Login pendente">>]
      [] ev.sign_in = "sessao" ->
            [ss |-> hidrata_plano([ss EXCEPT !.sb_session = "S1",
                                             !.user_id = "u1",
                                             !.user_email = ev.email],
                                  ev.sub),
             cookies |-> IF ev.remember
                         THEN [ck EXCEPT !.sb_refresh_token = "rt1",
                                         !.sb_access_token = "at1",
                                         !.saved_email = ev.email]
                         ELSE ck,
             msgs |-> <<"Login realizado!">>]

\* lines 724-738
rehidrata(ss, ev) ==
    IF ss.sb_session # None /\ ss.user_id = None
    THEN hidrata_plano([ss EXCEPT !.user_id = "u1", !.user_email = ev.email],
                       ev.sub)
    ELSE ss

Mut_sair(ss, ck, ev) ==
    IF ev.sign_out = "raises"
    THEN [ss |-> ss, cookies |-> ck, msgs |-> <<>>]
    ELSE [ss |-> [ss EXCEPT !.sb_session = None, !.user_id = None,
                            !.user_email = None, !.plan_id = None,
                            !.plan_name = None, !.plan_inicio = None,
                            !.plan_fim = None],
          cookies |-> [ck EXCEPT !.sb_refresh_token = None,
                                 !.sb_access_token = None],
          msgs |-> <<"Sessao encerrada.">>]

\* lines 706-721: the handler of "Sair".  ev.sign_out is "ok" or "raises";
\* a failure of sign_out is swallowed (lines 707-710).  Both token cookies
\* are written together (lines 682-686), so either both are popped or
\* neither is there
sair(ss, ck, ev) ==
    [ss |-> [ss EXCEPT !.sb_session = None, !.user_id = None,
                       !.user_email = None, !.plan_id = None,
                       !.plan_name = None, !.plan_inicio = None,
                       !.plan_fim = None],
     cookies |-> [ck EXCEPT !.sb_refresh_token = None,
                            !.sb_access_token = None],
     msgs |-> <<"Sessao encerrada.">>]

\* lines 347-396: the restore of the session from the token cookies, at the
\* top of every run; ev.restore is "ok", "raises" (set_session or
\* get_session raises) or "sem_user" (no session or no user comes back).
\* The select of lines 362-374 has no handler of its own: when it raises
\* (ev.sub = "falha") the except of line 391 runs after lines 355-357 have
\* stored the session.  The session key saved_email (line 390) only
\* pre-fills the e-mail input and is not followed.  Returns the session
\* state, the cookies and the outcome (None: the block did not run).
restaura_sessao(ss, ck, ev) ==
    IF ss.sb_session = None /\ ck.sb_refresh_token # None
                            /\ ck.sb_access_token # None
    THEN CASE ev.restore = "raises" ->
                [ss |-> ss, cookies |-> COOKIES_VAZIOS, restore |-> "raises"]
           [] ev.restore = "sem_user" ->
                [ss |-> ss, cookies |-> ck, restore |-> "sem_user"]
           [] ev.restore = "ok" ->
                LET s1 == [ss EXCEPT !.sb_session = "S1", !.user_id = "u1",
                                     !.user_email = "ana@x.org"]
                IN  IF ev.sub = "falha"
                    THEN [ss |-> s1, cookies |-> COOKIES_VAZIOS,
                          restore |-> "ok"]
                    ELSE [ss |-> hidrata_plano(s1, ev.sub), cookies |-> ck,
                          restore |-> "ok"]
    ELSE [ss |-> ss, cookies |-> ck, restore |-> None]

\* lines 654-738: what the sidebar does to the session and the cookies
sidebar(ss, ck, ev) ==
    LET r == IF ev.botao = "Sair" THEN sair(ss, ck, ev)
             ELSE IF ev.auth_mode = "Criar conta"
             THEN [ss |-> ss, cookies |-> ck,
                   msgs |-> IF ev.botao = "Criar conta"
                            THEN <<IF ev.sign_in = "raises"
                                   THEN "Erro ao criar conta"
                                   ELSE "Conta criada!">>
                            ELSE <<>>]
             ELSE IF ev.botao = "Entrar" THEN entrar(ss, ck, ev)
             ELSE [ss |-> ss, cookies |-> ck, msgs |-> <<>>]
    IN  [r EXCEPT !.ss = rehidrata(r.ss, ev)]

----------------------------------------------------------------------------
(* Recipes page (src/pages/06_Receitas.py).                                *)

\* "titulo ILIKE %search%" over the titles and searches the model uses
ilike(titulo, search) ==
    \/ search = ""
    \/ search = "frango" /\ titulo \in {"Frango grelhado", "Salada de frango"}

\* the elements of rows that satisfy keep, in order
RECURSIVE filtra(_, _)
filtra(rows, keep) ==
    IF rows = <<>> THEN <<>>
    ELSE (IF Head(rows).id \in keep THEN <<Head(rows)>> ELSE <<>>)
             \o filtra(Tail(rows), keep)

ids(rows) == {rows[i].id : i \in 1..Len(rows)}

\* lines 25-33: the table is kept in the order "created_at desc"
db_list_recipes(tabela, search, categorias) ==
    filtra(tabela,
           {r.id : r \in {x \in {tabela[i] : i \in 1..Len(tabela)} :
                            /\ ilike(x.titulo, search)
                            /\ categorias = {} \/ x.categoria \in categorias}})

\* lines 76 and 78: a sorts strictly after b under the key of sort_opt
depois(sort_opt, a, b) ==
    IF sort_opt = "Menor kcal" THEN RLt(b.kcal, a.kcal)
    ELSE RLt(num_or(a.proteina_g, Zero), num_or(b.proteina_g, Zero))

\* x placed in the sorted sequence srt before the first element that must
\* follow it
RECURSIVE insere(_, _, _)
insere(srt, x, sort_opt) ==
    IF srt = <<>> THEN <<x>>
    ELSE IF depois(sort_opt, Head(srt), x) THEN <<x>> \o srt
    ELSE <<Head(srt)>> \o insere(Tail(srt), x, sort_opt)

\* sorted(rows, key=...): stable
RECURSIVE sorted(_, _)
sorted(rows, sort_opt) ==
    IF rows = <<>> THEN <<>>
    ELSE insere(sorted(SubSeq(rows, 1, Len(rows) - 1), sort_opt),
                rows[Len(rows)], sort_opt)

\* lines 74-78; "Menor kcal" compares the kcal values, and a null among two
\* or more rows raises TypeError
ordena(rows, sort_opt) ==
    IF sort_opt = "Menor kcal"
    THEN IF Len(rows) >= 2 /\ \E i \in 1..Len(rows) : rows[i].kcal = NoneR
         THEN [raised |-> "TypeError", rows |-> <<>>]
         ELSE [raised |-> None, rows |-> sorted(rows, sort_opt)]
    ELSE IF sort_opt = "Maior proteina"
    THEN [raised |-> None, rows |-> sorted(rows, sort_opt)]
    ELSE [raised |-> None, rows |-> rows]

\* r.get("degustacao_gratis") as a condition: true, false or null in the row
gratis(r) == r.degustacao_gratis = "true"

\* variant: the free-sample flag is not consulted and every recipe is shown
Mut_gating(plan_id, rows) ==
    [is_fiel |-> plan_id = "FIEL", visiveis |-> rows, bloqueadas |-> <<>>]

\* lines 42-44 and 80-86; plan_id is None when the session has no such key
gating(plan_id, rows) ==
    LET is_fiel == (IF plan_id = None THEN "DISCIPULO" ELSE plan_id) = "FIEL"
    IN  IF is_fiel
        THEN [is_fiel |-> TRUE, visiveis |-> rows, bloqueadas |-> <<>>]
        ELSE [is_fiel |-> FALSE,
              visiveis |-> filtra(rows, {rows[i].id : i \in
                              {j \in 1..Len(rows) : gratis(rows[j])}}),
              bloqueadas |-> filtra(rows, {rows[i].id : i \in
                              {j \in 1..Len(rows) : ~gratis(rows[j])}})]

\* lines 89-125: what a card shows of the recipe
card_receita(r, locked) ==
    [id |-> r.id, locked |-> locked,
     titulo |-> (IF locked THEN "[bloqueada] " ELSE "") \o r.titulo,
     premium_info |-> locked,
     ingredientes |-> IF locked THEN <<>> ELSE r.ingredientes,
     preparo |-> IF locked THEN <<>> ELSE r.preparo]

RECEITAS_NONE ==
    [exception |-> None, rendeu |-> FALSE, plan_id |-> None, search |-> "",
     is_fiel |-> FALSE, rows |-> <<>>, visiveis |-> <<>>, bloqueadas |-> <<>>,
     cards |-> <<>>, nenhuma |-> FALSE]

\* lines 41-141: one run of the page; f holds the filter widgets
pagina_receitas(ss, tabela, f) ==
    LET base == [RECEITAS_NONE EXCEPT !.plan_id = ss.plan_id,
                                      !.search = f.search]
    IN  IF ~f.db_ok THEN [base EXCEPT !.exception = "APIError"]
        ELSE
        LET rows0 == db_list_recipes(tabela, f.search, f.cat_sel)
            rows1 == IF f.only_quick
                     THEN filtra(rows0, {rows0[i].id : i \in
                              {j \in 1..Len(rows0) :
                                  RLe(num_or(rows0[j].tempo_min, Zero),
                                      Int2R(15))}})
                     ELSE rows0
            ord   == ordena(rows1, f.sort_opt)
            g     == gating(ss.plan_id, ord.rows)
        IN  IF ord.raised # None THEN [base EXCEPT !.exception = ord.raised]
            ELSE [base EXCEPT
                    !.rendeu = TRUE, !.is_fiel = g.is_fiel,
                    !.rows = ord.rows,
                    !.visiveis = g.visiveis, !.bloqueadas = g.bloqueadas,
                    !.nenhuma = (ord.rows = <<>>),
                    !.cards =
                        IF ord.rows = <<>> THEN <<>>
                        ELSE [i \in 1..Len(g.visiveis) |->
                                 card_receita(g.visiveis[i], FALSE)]
                             \o [i \in 1..Len(g.bloqueadas) |->
                                    card_receita(g.bloqueadas[i], TRUE)]]

----------------------------------------------------------------------------
(* One script run of the page for a visitor past the onboarding gate: the  *)
(* tabs execute in source order, aba_diario (748) before aba_plano (1713), *)
(* and an uncaught exception ends the run where it is raised.              *)

MaxRows == 2

\* aba_plano in a run that ended before reaching it
NAO_RENDERIZADO ==
    [visivel |-> FALSE, calcular |-> FALSE, form |-> FORM_NONE,
     res |-> RES_NONE, exception |-> None, infos |-> <<>>, warnings |-> <<>>,
     metricas |-> METRICAS_NONE, resumo |-> RESUMO_NONE, salvar |-> FALSE,
     msgs |-> <<>>]

\* aba_diario in a run that ended before reaching the listing
DIARIO_NAO_RENDERIZADO ==
    [visivel |-> FALSE, login |-> FALSE, n_rows |-> 0, usa_metas |-> FALSE,
     metas |-> NoneR, progresso |-> <<>>, exception |-> None,
     warnings |-> <<>>, meal |-> MEAL_NONE, foto |-> None]

\* the tabs (lines 744-1944) in a run that reaches them with session ss;
\* ev.botao is the button clicked in this run ("" for none)
Tabs(ss, ev) ==
    LET logged == ss.sb_session # None
        rows1  == IF logged /\ ev.botao = "rapido" /\ ev.insert_ok
                  THEN Append(food_diary, quick_row(ev.food_q, ev.grams_q))
                  ELSE food_diary
    IN  \E ia \in {IF logged THEN bloco_ia(ev, rows1)
                   ELSE [rows |-> rows1, out |-> IA_NONE]} :
        \E parou \in {ia.out.exception # None} :
        \E rows2 \in {IF logged /\ ~parou /\ ev.botao = "add_meal"
                          /\ ev.insert_ok
                       THEN Append(ia.rows, meal_row(ev.meal))
                       ELSE ia.rows} :
        \* the form keeps the values it was submitted with
        \E d \in {IF parou THEN DIARIO_NAO_RENDERIZADO
                  ELSE [render_diario(ss, rows2, ev.lista_ok) EXCEPT
                           !.meal = IF logged THEN ev.meal ELSE MEAL_NONE,
                           !.foto = IF logged /\ ev.botao = "add_meal"
                                    THEN upload_foto(ev.meal, ev.upload_ok)
                                    ELSE None]} :
        \E pl \in {IF parou \/ d.exception # None THEN NAO_RENDERIZADO
                   ELSE render_plano(ev.botao = "Calcular", ev.form)} :
        \E ex \in {exporta_e_salva(pl, logged, ev.reportlab,
                                   ev.botao = "Salvar plano", ev.insert_ok,
                                   plans)} :
            /\ food_diary' = rows2
            /\ ia_out' = ia.out
            /\ diario_out' = d
            /\ plano_out' = ex.out
            /\ plans' = ex.plans
            /\ session_state' = salva_metas(ss, plano_out')

W_NONE ==
    [name |-> "", dob |-> NoneR, sex |-> None, h |-> NoneR, w |-> NoneR,
     act |-> None, goal |-> None, target |-> NoneR, obs |-> ""]

NoEvent ==
    [botao |-> "", form |-> FORM_NONE, food_q |-> None, grams_q |-> NoneR,
     insert_ok |-> TRUE, lista_ok |-> TRUE, meal |-> MEAL_NONE,
     ia_ativa |-> FALSE, foto |-> FALSE, auto |-> FALSE, upload_ok |-> TRUE,
     resp |-> RESP_BASE, reportlab |-> TRUE, perfil_ok |-> TRUE, w |-> W_NONE,
     update_ok |-> TRUE, auth_mode |-> "Entrar", sign_in |-> "raises",
     remember |-> TRUE, sub |-> "nenhuma", email |-> "", restore |-> "ok",
     sign_out |-> "ok", sair_segue |-> TRUE]

\* what a run past the gate draws before the tabs
tela_principal(ss, done, msgs, botao) ==
    [TELA_NONE EXCEPT !.sessao = (ss.sb_session # None),
                      !.onboarding_done = done,
                      !.sidebar = TRUE, !.tabs = TRUE,
                      !.msgs = msgs, !.botao = botao]

\* a run of a visitor whom the gate of lines 641-652 lets through and who
\* leaves the sidebar alone
ScriptRun(ev) ==
    /\ Tabs(session_state, ev)
    /\ tela_out' = tela_principal(session_state,
                                  session_state.sb_session # None, <<>>,
                                  ev.botao)
    /\ UNCHANGED <<call, ret, profiles, cookies, recipes, receitas_out,
                   chamadas>>

\* lines 641-652 and what follows them, in a run that no st.rerun() cuts
\* short: the wizard and st.stop(), or the sidebar and the tabs; ss and prof
\* are the session and the profiles row when the run starts, botao the click
\* that started the interaction
RunFinal(ss, prof, ck, ev, botao, io) ==
    LET session == ss.sb_session
        profile == le_perfil(prof, ev.perfil_ok)
        done    == session # None /\ pget(profile, "onboarding_done", FALSE)
    IN  IF session # None /\ ~done
        THEN \E w \in {render_onboarding(ss, prof, profile, ev)} :
                 /\ session_state' = w.ss
                 /\ profiles' = w.prof
                 /\ tela_out' = [w.tela EXCEPT !.botao = botao, !.io = io]
                 /\ diario_out' = DIARIO_NAO_RENDERIZADO
                 /\ plano_out' = NAO_RENDERIZADO
                 /\ ia_out' = IA_NONE
                 /\ cookies' = ck
                 /\ UNCHANGED <<food_diary, plans>>
        ELSE \E sb \in {sidebar(ss, ck, ev)} :
                 /\ cookies' = sb.cookies
                 /\ profiles' = prof
                 /\ IF ev.botao = "Sair" /\ ~ev.sair_segue
                    THEN /\ session_state' = sb.ss
                         /\ tela_out' = [tela_principal(ss, done, sb.msgs,
                                                        botao)
                                            EXCEPT !.tabs = FALSE, !.io = io]
                         /\ diario_out' = DIARIO_NAO_RENDERIZADO
                         /\ plano_out' = NAO_RENDERIZADO
                         /\ ia_out' = IA_NONE
                         /\ UNCHANGED <<food_diary, plans>>
                    ELSE /\ Tabs(sb.ss, ev)
                         /\ tela_out' = [tela_principal(ss, done, sb.msgs,
                                                        botao)
                                            EXCEPT !.io = io]

\* what the run started by ev with session state ss0 meets, r0 being what
\* the restore did
io_do_run(ss0, r0, ev) ==
    [sessao0  |-> ss0.sb_session # None,
     restore  |-> r0.restore,
     sign_in  |-> IF ev.botao = "Entrar" THEN ev.sign_in ELSE None,
     remember |-> ev.remember,
     sub      |-> ev.sub,
     sign_out |-> IF ev.botao = "Sair" THEN ev.sign_out ELSE None]

\* one interaction with app_calorias.py, ss0 being the session state it
\* starts with: the run it starts and, when that run calls st.rerun(), the
\* run that follows (ev2: what that run meets).
\* Only the wizard reruns, and it runs with a session, so the restore of
\* lines 347-396 has nothing to do in the run that follows
AppRunDe(ss0, ev, ev2) ==
    /\ \E r0 \in {restaura_sessao(ss0, cookies, ev)} :
       \E profile \in {le_perfil(profiles, ev.perfil_ok)} :
       \E gate \in {/\ r0.ss.sb_session # None
                    /\ ~pget(profile, "onboarding_done", FALSE)} :
       \E w \in {render_onboarding(r0.ss, profiles, profile, ev)} :
       \E r \in {IF gate /\ w.rerun
                 THEN [ss |-> w.ss, prof |-> w.prof, ev |-> ev2]
                 ELSE [ss |-> r0.ss, prof |-> profiles, ev |-> ev]} :
           RunFinal(r.ss, r.prof, r0.cookies, r.ev, ev.botao,
                    io_do_run(ss0, r0, ev))
    /\ UNCHANGED <<call, ret, recipes, receitas_out, chamadas>>

\* a run in the Streamlit session the last run left
AppRun(ev, ev2) == AppRunDe(session_state, ev, ev2)

\* the select of the listing (lines 1220-1233) runs, and can fail, only for
\* a logged-in user
ListaOks == IF session_state.sb_session # None THEN BOOLEAN ELSE {TRUE}

\* the plan form was drawn by the last run, so it can be submitted
PlanoVisivel == plano_out.visivel

\* the "Calcular" submit of the form "dados_basicos" (lines 1714-1791)
Calcular(Forms) ==
    /\ PlanoVisivel
    /\ \E f \in Forms, ok \in ListaOks :
          ScriptRun([NoEvent EXCEPT !.botao = "Calcular", !.form = f,
                                    !.lista_ok = ok])

\* a rerun with no button clicked (any other widget interaction)
Recarregar ==
    \E ok \in ListaOks : ScriptRun([NoEvent EXCEPT !.lista_ok = ok])

FoodsQ == {"frango grelhado"}
GramsQ == {Zero, Int2R(100)}

\* the quick-add button (lines 904-926), shown only to a logged-in user
AdicionarAlimentoRapido ==
    /\ session_state.sb_session # None
    /\ Len(food_diary) < MaxRows
    /\ \E food \in FoodsQ, g \in GramsQ, ins \in BOOLEAN, ok \in ListaOks :
          ScriptRun([NoEvent EXCEPT !.botao = "rapido", !.food_q = food,
                                    !.grams_q = g, !.insert_ok = ins,
                                    !.lista_ok = ok])

\* what the plan form can submit (lines 1719-1789), a selection
P75M == [peso |-> Int2R(75), altura |-> Int2R(175), idade |-> 30,
         sexo |-> "Masculino", atividade |-> SEDENTARIO]
P80M == [peso |-> Int2R(80), altura |-> Int2R(180), idade |-> 30,
         sexo |-> "Masculino", atividade |-> SEDENTARIO]
P75F == [peso |-> Int2R(75), altura |-> Int2R(175), idade |-> 30,
         sexo |-> "Feminino", atividade |-> MODERADO]
\* the smallest body the number inputs accept, at the greatest age
P30F == [peso |-> Int2R(30), altura |-> Int2R(120), idade |-> 100,
         sexo |-> "Feminino", atividade |-> SEDENTARIO]

\* <<body and activity, goal, slider position asked for (<<>>: untouched)>>
BasesForm ==
    {<<P75M, CUT, <<-40>>>>, <<P75M, MANUTENCAO, <<>>>>,
     <<P80M, MANUTENCAO, <<>>>>, <<P75F, BULK, <<>>>>,
     <<P75M, CUT, <<>>>>, <<P75F, MANUTENCAO, <<55>>>>}

GkgsForm ==
    {<<pg, fg>> : pg \in {Int2R(2), R(24, 10), Int2R(3)},
                  fg \in {R(8, 10), R(19, 10)}}

PctsForm ==
    {<<0, 0, 0>>, <<30, 40, 30>>, <<30, 30, 30>>, <<40, 40, 40>>,
     <<0, 40, 30>>, <<30, 0, 40>>, <<40, 30, 0>>, <<100, 0, 0>>,
     <<33, 33, 33>>, <<34, 33, 34>>}

FormsGkg(bases, gkgs) ==
    {[peso |-> b[1].peso, altura |-> b[1].altura, idade |-> b[1].idade,
      sexo |-> b[1].sexo, atividade |-> b[1].atividade,
      objetivo |-> b[2], ajuste_escolha |-> b[3],
      ajuste_percent |-> slider_ajuste(b[2], b[3]),
      metodo_macros |-> "Por g/kg", p_gkg |-> g[1], f_gkg |-> g[2],
      p_pct |-> NoneR, c_pct |-> NoneR, f_pct |-> NoneR] :
        b \in bases, g \in gkgs}

FormsPct(bases, pcts) ==
    {[peso |-> b[1].peso, altura |-> b[1].altura, idade |-> b[1].idade,
      sexo |-> b[1].sexo, atividade |-> b[1].atividade,
      objetivo |-> b[2], ajuste_escolha |-> b[3],
      ajuste_percent |-> slider_ajuste(b[2], b[3]),
      metodo_macros |-> "Por %", p_gkg |-> NoneR, f_gkg |-> NoneR,
      p_pct |-> Int2R(t[1]), c_pct |-> Int2R(t[2]), f_pct |-> Int2R(t[3])] :
        b \in bases, t \in pcts}

FormsPlano == FormsGkg(BasesForm, GkgsForm) \cup FormsPct(BasesForm, PctsForm)

\* the keys of st.session_state; None and 0 (ob_step) stand for a key that
\* is not set
SessaoVazia ==
    [sb_session |-> None, user_id |-> None, user_email |-> None,
     plan_id |-> None, plan_name |-> None, plan_inicio |-> None,
     plan_fim |-> None,
     kcal_alvo |-> NoneR, prot_g |-> NoneR, carb_g |-> NoneR,
     gord_g |-> NoneR,
     ob_step |-> 0, ob |-> OB_NONE]

\* the recipes table, newest first
REC_FRANGO ==
    [id |-> 1, titulo |-> "Frango grelhado", categoria |-> "Almoco",
     tempo_min |-> Int2R(20), kcal |-> Int2R(300), proteina_g |-> Int2R(40),
     degustacao_gratis |-> "true",
     ingredientes |-> <<"frango">>, preparo |-> <<"grelhar">>]
REC_SALADA ==
    [id |-> 2, titulo |-> "Salada de frango", categoria |-> "Jantar",
     tempo_min |-> Int2R(10), kcal |-> Int2R(200), proteina_g |-> Int2R(25),
     degustacao_gratis |-> "false",
     ingredientes |-> <<"alface", "frango">>, preparo |-> <<"misturar">>]
REC_AVEIA ==
    [id |-> 3, titulo |-> "Mingau de aveia", categoria |-> "Cafe",
     tempo_min |-> NoneR, kcal |-> Int2R(200), proteina_g |-> NoneR,
     degustacao_gratis |-> "null",
     ingredientes |-> <<"aveia">>, preparo |-> <<"cozinhar">>]
REC_BOLO ==
    [id |-> 4, titulo |-> "Bolo de banana", categoria |-> "Cafe",
     tempo_min |-> Int2R(40), kcal |-> NoneR, proteina_g |-> Int2R(5),
     degustacao_gratis |-> "true",
     ingredientes |-> <<"banana">>, preparo |-> <<"assar">>]

Catalogos ==
    {<<REC_FRANGO, REC_SALADA, REC_AVEIA>>,
     <<REC_BOLO, REC_SALADA, REC_FRANGO>>,
     <<>>}

Chamadores == {"A", "B"}

\* per caller: the calculator call in progress or last made, whether it is
\* still running, and what it returned
CHAMADAS_NONE ==
    [c \in Chamadores |->
        [call |-> <<"none">>, pendente |-> FALSE, ret |-> NoneR]]

\* the stores and the pages before the first interaction of the model, for
\* a visitor with session ss whose profiles row is prof
InitApp(ss, prof) ==
    /\ call = <<"none">>
    /\ ret = NoneR
    /\ session_state = ss
    /\ food_diary = <<>>
    /\ diario_out = render_diario(ss, <<>>, TRUE)
    /\ plano_out = render_plano(FALSE, FORM_NONE)
    /\ profiles = prof
    /\ plans = <<>>
    /\ cookies = COOKIES_VAZIOS
    /\ recipes \in Catalogos
    /\ tela_out = tela_principal(ss, ss.sb_session # None, <<>>, "")
    /\ ia_out = IA_NONE
    /\ receitas_out = RECEITAS_NONE
    /\ chamadas = CHAMADAS_NONE

\* the page as first drawn for an anonymous visitor
Init ==
    /\ InitApp(SessaoVazia, PERFIL_NOVO)
    /\ recipes = <<>>

CalcularPlano == Calcular(FormsPlano)

Next == CalcularPlano \/ Recarregar

Spec == Init /\ [][Next]_vars

\* a logged-in user whose profile has onboarding_done, so that the gate of
\* lines 641-652 lets every run reach the tabs
SessaoLogada ==
    hidrata_plano([SessaoVazia EXCEPT !.sb_session = "S1", !.user_id = "u1",
                                      !.user_email = "ana@x.org"],
                  "nenhuma")

\* the profiles row once the wizard has been completed
PERFIL_FEITO ==
    [PERFIL_NOVO EXCEPT !.onboarding_done = TRUE, !.sex = "Masculino",
                        !.height_cm = Int2R(175), !.weight_kg = Int2R(75),
                        !.goal = EMAGRECER, !.target_weight_kg = Int2R(70)]

FormsDiario ==
    FormsGkg({<<P75M, CUT, <<-40>>>>, <<P75M, MANUTENCAO, <<>>>>},
             {<<Int2R(3), R(19, 10)>>, <<Int2R(2), R(8, 10)>>})
        \cup FormsPct({<<P75M, MANUTENCAO, <<>>>>},
                      {<<30, 40, 30>>, <<0, 40, 30>>})

InitDiario ==
    /\ InitApp(SessaoLogada, PERFIL_FEITO)
    /\ recipes = <<>>

CalcularDiario == Calcular(FormsDiario)

NextDiario == CalcularDiario \/ Recarregar \/ AdicionarAlimentoRapido

SpecDiario == InitDiario /\ [][NextDiario]_vars

----------------------------------------------------------------------------
(* Direct invocations of the calculator helpers, with arguments that are   *)
(* not restricted to what the forms can submit.                            *)

Kgs      == {Int2R(0), Int2R(75), R(751, 10), Int2R(300)}
Cms      == {Int2R(0), Int2R(175), R(3511, 2)}
Idades   == {1, 30, 100}
Sexos    == {"Masculino", "Feminino", "Outro"}
Niveis   == {SEDENTARIO, LEVE, MODERADO, ALTO, ATLETA, "Moderado", ""}
Tdees    == {Int2R(2000), R(20097, 10), Int2R(0), Int2R(-311)}
Ajustes  == {Int2R(-100), Int2R(-50), Int2R(-40), Int2R(-20), Int2R(0),
             Int2R(15), Int2R(40), Int2R(50), R(25, 2)}

\* everything but the last direct call and its result
app_vars ==
    <<session_state, food_diary, diario_out, plano_out, profiles, plans,
      cookies, recipes, tela_out, ia_out, receitas_out, chamadas>>

InitCalc ==
    /\ InitApp(SessaoVazia, PERFIL_NOVO)
    /\ recipes = <<>>

CallBmr ==
    \E kg \in Kgs, cm \in Cms, anos \in Idades, sex \in Sexos :
        /\ call' = <<"_bmr_mifflin", kg, cm, anos, sex>>
        /\ ret' = _bmr_mifflin(kg, cm, anos, sex)
        /\ UNCHANGED app_vars

CallFator ==
    \E txt \in Niveis :
        /\ call' = <<"_fator_atividade", txt>>
        /\ ret' = _fator_atividade(txt)
        /\ UNCHANGED app_vars

CallTdee ==
    \E kg \in {Int2R(75), Int2R(80)}, cm \in {Int2R(175)}, anos \in {30},
       sex \in Sexos, txt \in Niveis :
        /\ call' = <<"_tdee", kg, cm, anos, sex, txt>>
        /\ ret' = _tdee(kg, cm, anos, sex, txt)
        /\ UNCHANGED app_vars

CallAlvo ==
    \E t \in Tdees, a \in Ajustes :
        /\ call' = <<"kcal_alvo", t, a>>
        /\ ret' = calc_kcal_alvo(t, a)
        /\ UNCHANGED app_vars

KcalsCall == {Int2R(2000), Int2R(1400), R(20385, 10), Int2R(0)}

PctsCall ==
    {<<Int2R(t[1]), Int2R(t[2]), Int2R(t[3])>> : t \in PctsForm}
        \cup {<<R(3333, 100), R(3333, 100), R(3334, 100)>>,
              <<R(25, 2), R(25, 2), Int2R(25)>>,
              <<Int2R(150), Int2R(150), Int2R(200)>>}

CallPct ==
    \E k \in KcalsCall, t \in PctsCall :
        /\ call' = <<"kcal_to_macros_grams", k, t[1], t[2], t[3]>>
        /\ ret' = kcal_to_macros_grams(k, t[1], t[2], t[3])
        /\ UNCHANGED app_vars

CallGkg ==
    \E peso \in {Int2R(75), Int2R(80), R(751, 10)},
       pg \in {R(5, 10), R(24, 10), R(25, 10)},
       fg \in {Int2R(1), R(19, 10)},
       k \in {Int2R(1400), Int2R(2136), Int2R(0)} :
        /\ call' = <<"grams_from_gkg", peso, pg, fg, k>>
        /\ ret' = grams_from_gkg(peso, pg, fg, k)
        /\ UNCHANGED app_vars

NextCalc == CallBmr \/ CallFator \/ CallTdee \/ CallAlvo \/ CallPct \/ CallGkg

SpecCalc == InitCalc /\ [][NextCalc]_vars

\* a finite number, as opposed to an exception or None
IsNumber(x) ==
    /\ x \in Seq(Int)
    /\ Len(x) = 2
    /\ x[2] > 0

----------------------------------------------------------------------------
\* the closed form, cleared of fractions:
\* 400 * bmr = 4000*kg + 2500*cm - 2000*age + 400*offset
BmrClosedForm(kg, cm, anos, sex, bmr) ==
    LET off == IF sex = "Masculino" THEN 5 ELSE -161
    IN  /\ IsNumber(bmr)
        /\ RMul(Int2R(400), bmr) =
               RAdd(RAdd(RMul(Int2R(4000), kg), RMul(Int2R(2500), cm)),
                    Int2R(400 * off - 2000 * anos))

IsBmrExample ==
    /\ call[1] = "_bmr_mifflin"
    /\ call[2] = Int2R(75) /\ call[3] = Int2R(175)
    /\ call[4] = 30 /\ call[5] = "Masculino"

\* C1 (as amended): for every weight, height, age and sex, the BMR helper
\* returns 10*kg + 6.25*cm - 5*age + offset, offset +5 for "Masculino" and
\* -161 for every other sex value, always as a number (zero and negative
\* included); 75 kg, 175 cm, 30 years, male gives 1698.75.
C1_BmrFormula ==
    call[1] = "_bmr_mifflin" =>
        /\ BmrClosedForm(call[2], call[3], call[4], call[5], ret)
        /\ IsBmrExample => ret = R(169875, 100)

\* C1 (as stated): the same closed form, with the example 75 kg, 175 cm,
\* 30 years, male giving 1674.75.
C1_Original ==
    call[1] = "_bmr_mifflin" =>
        /\ BmrClosedForm(call[2], call[3], call[4], call[5], ret)
        /\ IsBmrExample => ret = R(167475, 100)

\* a non-male sex value and a non-positive result have both been returned
C1_Witness ==
    /\ call[1] = "_bmr_mifflin"
    /\ call[5] = "Outro"
    /\ RLe(ret, Zero)

----------------------------------------------------------------------------
\* the multiplier table of the specification, in thousandths
TabelaMil(txt) ==
    CASE txt = SEDENTARIO -> 1200
      [] txt = LEVE       -> 1375
      [] txt = MODERADO   -> 1550
      [] txt = ALTO       -> 1725
      [] txt = ATLETA     -> 1900
      [] OTHER            -> 1200

\* C2: for every BMR and every activity input, TDEE is BMR times the table
\* multiplier (1.2, 1.375, 1.55, 1.725, 1.9), and an activity input that is
\* not one of the five keys yields BMR * 1.2.
C2_TdeeTable ==
    /\ call[1] = "_fator_atividade" =>
            RMul(Int2R(1000), ret) = Int2R(TabelaMil(call[2]))
    /\ call[1] = "_tdee" =>
            RMul(Int2R(1000), ret) =
                RMul(Int2R(TabelaMil(call[6])),
                     _bmr_mifflin(call[2], call[3], call[4], call[5]))

\* TDEE has been computed for an activity text that is not a table key
C2_Witness ==
    /\ call[1] = "_tdee"
    /\ call[6] = "Moderado"
    /\ call[2] = Int2R(75) /\ call[5] = "Masculino"
    /\ ret = R(20385, 10)

\* C3: for every TDEE and every signed adjustment, the target is
\* tdee * (1 + adjustment/100) with the adjustment applied as given, also
\* outside [-40, 40]; 2000 with -20 gives 1600 and 2000 with 15 gives 2300.
C3_TargetCalories ==
    call[1] = "kcal_alvo" =>
        /\ RMul(Int2R(100), ret) = RMul(call[2], RAdd(Int2R(100), call[3]))
        /\ (call[2] = Int2R(2000) /\ call[3] = Int2R(-20)) => ret = Int2R(1600)
        /\ (call[2] = Int2R(2000) /\ call[3] = Int2R(15)) => ret = Int2R(2300)

\* an adjustment of +50 has been applied to 2000 and gave 3000
C3_Witness ==
    /\ call = <<"kcal_alvo", Int2R(2000), Int2R(50)>>
    /\ ret = Int2R(3000)

----------------------------------------------------------------------------
\* C6: for every weight, protein g/kg, fat g/kg and target, the g/kg helper
\* returns protein_g = weight * protein g/kg, fat_g = weight * fat g/kg,
\* leftover = target - (protein_g*4 + fat_g*9) and carb_g = max(0,
\* leftover/4), so carb_g is never negative.
C6_GkgFormula ==
    call[1] = "grams_from_gkg" =>
        LET peso == call[2]  pg == call[3]  fg == call[4]  k == call[5]
            prot == ret[1]  carb == ret[2]  fat == ret[3]  rest == ret[4]
        IN  /\ prot = RMul(peso, pg)
            /\ fat = RMul(peso, fg)
            /\ RAdd(rest, RAdd(RMul(Int2R(4), prot), RMul(Int2R(9), fat))) = k
            /\ IF RLt(rest, Zero) THEN carb = Zero
                                  ELSE RMul(Int2R(4), carb) = rest
            /\ RLe(Zero, carb)

\* 75 kg at 2.5 and 1.0 g/kg against 1400 kcal: leftover -25 and no carbs
C6_Witness ==
    /\ call = <<"grams_from_gkg", Int2R(75), R(25, 10), Int2R(1), Int2R(1400)>>
    /\ ret = <<R(1875, 10), Zero, Int2R(75), Int2R(-25)>>

SomaCall == RAdd(RAdd(call[3], call[4]), call[5])

\* C7: a percentage triple whose sum is non-zero and differs from 100 by more
\* than 0.01 is replaced by pct / sum * 100, so the percentages used and
\* returned sum to 100; a triple that sums to 100 is used unchanged.
C7_Normalization ==
    (call[1] = "kcal_to_macros_grams" /\ SomaCall # Zero) =>
        LET n == ret.val[4]
        IN  /\ ret.raised = None
            /\ RLt(R(1, 100), RAbs(RSub(SomaCall, Int2R(100)))) =>
                  /\ \A i \in 1..3 :
                        RMul(n[i], SomaCall) = RMul(call[i + 2], Int2R(100))
                  /\ RAdd(RAdd(n[1], n[2]), n[3]) = Int2R(100)
            /\ SomaCall = Int2R(100) => n = <<call[3], call[4], call[5]>>

\* 40/40/40 has been normalized to thirds of 100
C7_Witness ==
    /\ call[1] = "kcal_to_macros_grams"
    /\ <<call[3], call[4], call[5]>> = <<Int2R(40), Int2R(40), Int2R(40)>>
    /\ ret.val[4] = <<R(100, 3), R(100, 3), R(100, 3)>>

\* C8: for every target and (normalized) percentage triple, grams are
\* (target * pct/100) / kcal_per_gram, 4 kcal/g for protein and carbohydrate
\* and 9 kcal/g for fat; 2000 kcal at 30/40/30 gives 150 g, 200 g and about
\* 66.7 g.
C8_GramsFromPct ==
    (call[1] = "kcal_to_macros_grams" /\ SomaCall # Zero) =>
        LET k == call[2]
            n == ret.val[4]
        IN  /\ RMul(Int2R(400), ret.val[1]) = RMul(k, n[1])
            /\ RMul(Int2R(400), ret.val[2]) = RMul(k, n[2])
            /\ RMul(Int2R(900), ret.val[3]) = RMul(k, n[3])
            /\ (k = Int2R(2000) /\ <<call[3], call[4], call[5]>> =
                                      <<Int2R(30), Int2R(40), Int2R(30)>>) =>
                  /\ ret.val[1] = Int2R(150)
                  /\ ret.val[2] = Int2R(200)
                  /\ Fmt1(ret.val[3]) = 667

\* 2000 kcal at 30/40/30 has been converted
C8_Witness ==
    /\ call = <<"kcal_to_macros_grams", Int2R(2000), Int2R(30), Int2R(40), Int2R(30)>>
    /\ ret.val[3] = R(200, 3)

----------------------------------------------------------------------------
(* The plan form as submitted on the page.                                 *)

\* the sum of the three percentages of a submitted percentage form
SomaPct(f) == f.p_pct[1] + f.c_pct[1] + f.f_pct[1]

CalculouPct(out) == out.calcular /\ out.form.metodo_macros = "Por %"

CalculouGkg(out) == out.calcular /\ out.form.metodo_macros = "Por g/kg"

\* C4: a submitted percentage form whose percentages sum to zero ends in a
\* reported InvalidInput error and yields no macro grams: none is shown and
\* the targets kept in the session are left as they were.
C4_ZeroSumIsError ==
    [][(CalculouPct(plano_out') /\ SomaPct(plano_out'.form) = 0) =>
          /\ plano_out'.exception = "InvalidInput"
          /\ plano_out'.res.prot_g = NoneR
          /\ plano_out'.res.carb_g = NoneR
          /\ plano_out'.res.gord_g = NoneR
          /\ session_state' = session_state]_vars

\* 0/0/0 has been submitted after an earlier plan had stored its targets
C4_Witness ==
    /\ CalculouPct(plano_out)
    /\ <<plano_out.form.p_pct, plano_out.form.c_pct, plano_out.form.f_pct>>
           = <<Zero, Zero, Zero>>
    /\ plano_out.exception = "InvalidInput"
    /\ session_state.prot_g # NoneR

\* C9: for every plan of the percentage method (percentages with a non-zero
\* sum), protein_g*4 + carb_g*4 + fat_g*9 is within 1 kcal of the target.
C9_RoundTrip ==
    (CalculouPct(plano_out) /\ plano_out.exception = None) =>
        LET k == plano_out.res.kcal
            soma == RAdd(RAdd(k.kcal_p, k.kcal_c), k.kcal_f)
        IN  RLe(RAbs(RSub(soma, plano_out.res.kcal_alvo)), Int2R(1))

\* a plan from percentages that had to be normalized, with a zero share
C9_Witness ==
    /\ CalculouPct(plano_out)
    /\ plano_out.exception = None
    /\ plano_out.form.p_pct = Zero
    /\ SomaPct(plano_out.form) = 70
    /\ plano_out.res.kcal.kcal_p = Zero
    /\ RLt(Zero, plano_out.res.kcal.kcal_f)

\* C10: every successful percentage plan carries the normalized percentages,
\* and the normalization notice is shown exactly when the submitted
\* percentages do not sum to 100 (to within 0.01): for 30/30/30 it reports
\* 33.3/33.3/33.3, for 30/40/30 there is none.
C10_NormalizationNotice ==
    (CalculouPct(plano_out) /\ plano_out.exception = None) =>
        LET f == plano_out.form
            n == plano_out.res.pcts
        IN  /\ Len(n) = 3
            /\ RAdd(RAdd(n[1], n[2]), n[3]) = Int2R(100)
            /\ (SomaPct(f) # 100) <=> (Len(plano_out.infos) = 1)
            /\ (SomaPct(f) = 100) <=> (plano_out.infos = <<>>)
            /\ <<f.p_pct, f.c_pct, f.f_pct>> = <<Int2R(30), Int2R(30), Int2R(30)>>
                  => plano_out.infos = << <<"Normalizadas", 900, 333, 333, 333>> >>
            /\ <<f.p_pct, f.c_pct, f.f_pct>> = <<Int2R(30), Int2R(40), Int2R(30)>>
                  => plano_out.infos = <<>>

\* 30/30/30 has been submitted and the notice is on the page
C10_Witness ==
    /\ CalculouPct(plano_out)
    /\ <<plano_out.form.p_pct, plano_out.form.c_pct, plano_out.form.f_pct>>
           = <<Int2R(30), Int2R(30), Int2R(30)>>
    /\ Len(plano_out.infos) = 1

----------------------------------------------------------------------------
\* target - (protein_g*4 + fat_g*9) of the targets <<kcal, p, c, f>>
Sobra(metas) ==
    RSub(metas[1], RAdd(RMul(metas[2], Int2R(4)), RMul(metas[4], Int2R(9))))

Avisado(warnings) == \E i \in 1..Len(warnings) : warnings[i] = AVISO_CARBO

\* C5: whenever target - (protein_g*4 + fat_g*9) is negative in the g/kg
\* method, carbohydrate grams are 0 and the exceeded budget reaches the user
\* as a warning on every path that uses the result: where the plan is shown
\* and where the diary measures the day against the stored targets; when the
\* remainder is zero or positive no warning is given.
C5_BudgetExceededWarned ==
    /\ CalculouGkg(plano_out) =>
          IF RLt(plano_out.res.kcal_rest, Zero)
          THEN plano_out.res.carb_g = Zero /\ Avisado(plano_out.warnings)
          ELSE plano_out.warnings = <<>>
    /\ (diario_out.usa_metas /\ RLt(Sobra(diario_out.metas), Zero)) =>
          Avisado(diario_out.warnings)

----------------------------------------------------------------------------
(* The app from sign-in to the main screen: the sidebar, the wizard and    *)
(* the plan form (src/app_calorias.py:634-746, 180-334, 1713-1944).        *)

\* what the widgets of steps 2, 3 and 8 can hold when a button is clicked
W_ANA ==
    [name |-> "Ana", dob |-> <<1990, 12, 20>>, sex |-> "Feminino",
     h |-> Int2R(165), w |-> Int2R(80), act |-> LEVE,
     goal |-> GANHAR_MASSA, target |-> Int2R(85), obs |-> " tempo "]
W_PADRAO ==
    [name |-> "", dob |-> <<1995, 1, 1>>, sex |-> "Masculino",
     h |-> Int2R(170), w |-> Int2R(75), act |-> MODERADO,
     goal |-> EMAGRECER, target |-> Int2R(70), obs |-> "  "]
W_MANTER ==
    [W_PADRAO EXCEPT !.goal = MANUTENCAO, !.target = Int2R(75)]

Ws == {W_ANA, W_PADRAO, W_MANTER}

\* the select of lines 644-648 runs only with a session, kept from the last
\* run or restored from the cookies; Oks says whether it can succeed (TRUE)
\* and fail (FALSE)
PerfilOks(Oks) ==
    IF \/ session_state.sb_session # None
       \/ cookies.sb_refresh_token # None /\ cookies.sb_access_token # None
    THEN Oks ELSE {TRUE}

\* the wizard was drawn by the last run, so its buttons can be clicked
WizardVisivel == tela_out.wizard

\* "Entrar" in the sidebar (lines 669-704), with the "Lembrar meu login"
\* box in one of Rems and the user's subscription one of Subs
EntrarCom(Rems, Subs, Oks) ==
    /\ tela_out.sidebar
    /\ \E si \in {"sessao", "sem_sessao", "raises"}, rem \in Rems,
          sub \in Subs, ok \in PerfilOks(Oks) :
          AppRun([NoEvent EXCEPT !.botao = "Entrar", !.sign_in = si,
                                 !.remember = rem, !.sub = sub,
                                 !.email = "ana@x.org", !.perfil_ok = ok],
                 NoEvent)

\* "Proximo" of steps 1-7 (lines 304-316)
ProximoCom(Oks) ==
    /\ WizardVisivel
    /\ tela_out.step < 8
    /\ \E w \in Ws, ok \in Oks, ok2 \in Oks :
          AppRun([NoEvent EXCEPT !.botao = "Proximo", !.w = w,
                                 !.perfil_ok = ok],
                 [NoEvent EXCEPT !.perfil_ok = ok2])

\* "Voltar" of steps 2-8 (lines 299-302)
VoltarCom(Oks) ==
    /\ WizardVisivel
    /\ tela_out.step > 1
    /\ \E ok \in Oks, ok2 \in Oks :
          AppRun([NoEvent EXCEPT !.botao = "Voltar", !.w = W_PADRAO,
                                 !.perfil_ok = ok],
                 [NoEvent EXCEPT !.perfil_ok = ok2])

\* "Concluir" of step 8 (lines 317-334)
ConcluirCom(Oks) ==
    /\ WizardVisivel
    /\ tela_out.step = 8
    /\ \E w \in Ws, up \in BOOLEAN, ok \in Oks, ok2 \in Oks :
          AppRun([NoEvent EXCEPT !.botao = "Concluir", !.w = w,
                                 !.update_ok = up, !.perfil_ok = ok],
                 [NoEvent EXCEPT !.perfil_ok = ok2])

\* a rerun of the page with no button clicked
RecarregarCom(Oks) ==
    \E ok \in PerfilOks(Oks) :
        AppRun([NoEvent EXCEPT !.perfil_ok = ok], NoEvent)

FormsApp ==
    FormsGkg({<<P75M, CUT, <<>>>>, <<P75F, BULK, <<>>>>,
              <<P80M, MANUTENCAO, <<>>>>, <<P75F, MANUTENCAO, <<55>>>>,
              <<P30F, CUT, <<-55>>>>},
             {<<Int2R(2), R(8, 10)>>})

\* "Calcular" of the plan form, when the tabs were drawn
CalcularCom(Forms, Oks) ==
    /\ PlanoVisivel
    /\ \E f \in Forms, ok \in PerfilOks(Oks) :
          AppRun([NoEvent EXCEPT !.botao = "Calcular", !.form = f,
                                 !.perfil_ok = ok],
                 NoEvent)

InitAppSpec ==
    /\ InitApp(SessaoVazia, PERFIL_NOVO)
    /\ recipes = <<>>

\* a visitor who signs in, walks the wizard and computes plans, the profile
\* reads of lines 644-648 succeeding
Entrar == EntrarCom({TRUE}, {"nenhuma"}, {TRUE})

Proximo == ProximoCom({TRUE})

Voltar == VoltarCom({TRUE})

Concluir == ConcluirCom({TRUE})

RecarregarApp == RecarregarCom({TRUE})

CalcularApp == CalcularCom(FormsApp, {TRUE})

NextApp ==
    \/ Entrar \/ Proximo \/ Voltar \/ Concluir \/ RecarregarApp \/ CalcularApp

SpecApp == InitAppSpec /\ [][NextApp]_vars

----------------------------------------------------------------------------
\* the default adjustment of a goal of the plan form
AjusteDoObjetivo(objetivo) ==
    IF objetivo = CUT THEN -20 ELSE IF objetivo = BULK THEN 15 ELSE 0

\* the adjustment of a goal of the wizard
AjusteDaMeta(goal) ==
    IF goal = EMAGRECER THEN -20 ELSE IF goal = GANHAR_MASSA THEN 15 ELSE 0

\* C11: each goal selects its default adjustment (deficit -20, maintenance
\* 0, surplus +15); the adjustment the plan form applies is an integer in
\* [-40, 40], the goal's default while the slider is untouched, so the
\* target calories of every computed plan lie between 0.6 * TDEE and
\* 1.4 * TDEE; the estimate of the wizard's step 4 always applies the
\* default adjustment of the goal to the TDEE.
C11_AdjustmentBounds ==
    /\ (plano_out.calcular /\ plano_out.exception = None) =>
          LET f == plano_out.form
              r == plano_out.res
          IN  /\ r.ajuste_padrao = AjusteDoObjetivo(f.objetivo)
              /\ f.ajuste_percent \in -40..40
              /\ f.ajuste_escolha = <<>> => f.ajuste_percent = r.ajuste_padrao
              /\ RLe(RMul(R(6, 10), r.tdee_val), r.kcal_alvo)
              /\ RLe(r.kcal_alvo, RMul(R(14, 10), r.tdee_val))
              /\ r.kcal_alvo =
                    RMul(r.tdee_val, R(100 + f.ajuste_percent, 100))
    /\ tela_out.estimativa.mostra =>
          LET e == tela_out.estimativa
          IN  /\ e.ajuste = AjusteDaMeta(e.goal)
              /\ e.kcal_alvo = RMul(e.tdee_val, R(100 + e.ajuste, 100))

\* an onboarded user computes a deficit plan with the slider untouched
C11_Witness ==
    /\ profiles.onboarding_done
    /\ profiles.goal = GANHAR_MASSA
    /\ plano_out.calcular
    /\ plano_out.exception = None
    /\ plano_out.form.objetivo = CUT
    /\ plano_out.form.ajuste_escolha = <<>>
    /\ plano_out.form.ajuste_percent = -20
    /\ plano_out.res.kcal_alvo = RMul(R(8, 10), plano_out.res.tdee_val)

----------------------------------------------------------------------------
\* centesimos is x to two decimals: within half a hundredth of x
DuasCasas(centesimos, x) ==
    RLe(RAbs(RSub(Int2R(centesimos), RMul(x, Int2R(100)))), R(1, 2))

\* C12: for every weight the daily water target is weight_kg * 35
\* millilitres, whatever the other inputs are, and the figure shown in
\* litres (to two decimals) is that amount divided by 1000, in the plan tab
\* and its export as in the wizard's estimate.
C12_WaterTarget ==
    /\ (plano_out.calcular /\ plano_out.exception = None) =>
          LET ml == RMul(plano_out.form.peso, Int2R(35))
          IN  /\ plano_out.res.agua = ml
              /\ DuasCasas(plano_out.metricas.agua_l, RDiv(ml, Int2R(1000)))
              /\ plano_out.resumo.exporta =>
                    plano_out.resumo.agua_l = plano_out.metricas.agua_l
    /\ tela_out.estimativa.mostra =>
          LET e  == tela_out.estimativa
              ml == RMul(e.weight_kg, Int2R(35))
          IN  /\ RMul(e.agua_l, Int2R(1000)) = ml
              /\ DuasCasas(e.agua_fmt, RDiv(ml, Int2R(1000)))

\* the wizard estimates 2800 ml, shown as 2.80 L, for 80 kg
C12_Witness ==
    /\ tela_out.estimativa.mostra
    /\ tela_out.estimativa.weight_kg = Int2R(80)
    /\ RMul(tela_out.estimativa.agua_l, Int2R(1000)) = Int2R(2800)
    /\ tela_out.estimativa.agua_fmt = 280

----------------------------------------------------------------------------
\* inteiro is x with no decimals: within half a unit of x
SemCasas(inteiro, x) == RLe(RAbs(RSub(Int2R(inteiro), x)), R(1, 2))

\* C13: for every computed plan, in both macro methods, the calorie
\* equivalents are protein_g * 4, carb_g * 4 and fat_g * 9, and the figures
\* shown with the macro metrics and written to the export summary are
\* those values (to the unit).
C13_CalorieEquivalents ==
    (plano_out.calcular /\ plano_out.exception = None) =>
        LET r  == plano_out.res
            kp == RMul(r.prot_g, Int2R(4))
            kc == RMul(r.carb_g, Int2R(4))
            kf == RMul(r.gord_g, Int2R(9))
            m  == plano_out.metricas
            x  == plano_out.resumo
        IN  /\ r.kcal.kcal_p = kp /\ r.kcal.kcal_c = kc /\ r.kcal.kcal_f = kf
            /\ SemCasas(m.kcal_p, kp) /\ SemCasas(m.kcal_c, kc)
            /\ SemCasas(m.kcal_f, kf)
            /\ x.exporta =>
                  /\ SemCasas(x.kcal_prot, kp) /\ SemCasas(x.kcal_carb, kc)
                  /\ SemCasas(x.kcal_gord, kf)

\* a percentage plan whose grams are not whole numbers, so that rounding
\* the grams first would export other calories
C13_Witness ==
    /\ plano_out.calcular
    /\ plano_out.exception = None
    /\ plano_out.form.metodo_macros = "Por %"
    /\ plano_out.resumo.exporta
    /\ plano_out.resumo.kcal_prot # plano_out.resumo.g_prot * 4
    /\ plano_out.res.kcal.kcal_p = RMul(plano_out.res.prot_g, Int2R(4))

----------------------------------------------------------------------------
(* The calculators called directly by concurrent callers while the page    *)
(* runs (src/app_calorias.py:145-159, 236-238, 1797-1813).                 *)

\* the calculator named by inv[1] applied to the arguments that follow it
calculadora(inv) ==
    CASE inv[1] = "_bmr_mifflin" ->
            _bmr_mifflin(inv[2], inv[3], inv[4], inv[5])
      [] inv[1] = "_fator_atividade" -> _fator_atividade(inv[2])
      [] inv[1] = "_tdee" -> _tdee(inv[2], inv[3], inv[4], inv[5], inv[6])
      [] inv[1] = "kcal_alvo" -> calc_kcal_alvo(inv[2], inv[3])
      [] inv[1] = "agua_l" -> agua_l(inv[2])
      [] inv[1] = "agua_diaria_ml" -> agua_diaria_ml(inv[2])
      [] inv[1] = "kcal_to_macros_grams" ->
            kcal_to_macros_grams(inv[2], inv[3], inv[4], inv[5])
      [] inv[1] = "grams_from_gkg" ->
            grams_from_gkg(inv[2], inv[3], inv[4], inv[5])

Invocacoes ==
    {<<"_bmr_mifflin", Int2R(75), Int2R(175), 30, "Masculino">>,
     <<"_fator_atividade", MODERADO>>,
     <<"_tdee", Int2R(75), Int2R(175), 30, "Masculino", SEDENTARIO>>,
     <<"kcal_alvo", R(20385, 10), Int2R(-20)>>,
     <<"agua_l", Int2R(80)>>,
     <<"agua_diaria_ml", Int2R(80)>>,
     <<"kcal_to_macros_grams", Int2R(2000), Int2R(30), Int2R(40), Int2R(30)>>,
     <<"grams_from_gkg", Int2R(75), Int2R(2), R(8, 10), Int2R(2000)>>}

\* caller c enters a calculator with arguments of its choice
Chamar(c) ==
    /\ ~chamadas[c].pendente
    /\ \E inv \in Invocacoes :
          chamadas' = [chamadas EXCEPT
                          ![c] = [call |-> inv, pendente |-> TRUE,
                                  ret |-> NoneR]]
    /\ UNCHANGED <<call, ret, session_state, food_diary, diario_out,
                   plano_out, profiles, plans, cookies, recipes, tela_out,
                   ia_out, receitas_out>>

\* variant: the calculator keeps its last result in the session
Mut_Retornar(c) ==
    /\ chamadas[c].pendente
    /\ chamadas' = [chamadas EXCEPT
                       ![c].pendente = FALSE,
                       ![c].ret = calculadora(chamadas[c].call)]
    /\ session_state' =
          [session_state EXCEPT
              !.kcal_alvo = IF chamadas[c].call[1] = "kcal_alvo"
                            THEN calculadora(chamadas[c].call)
                            ELSE @]
    /\ UNCHANGED <<call, ret, food_diary, diario_out,
                   plano_out, profiles, plans, cookies, recipes, tela_out,
                   ia_out, receitas_out>>

\* the calculator that caller c entered returns: its body uses its
\* arguments and local names only
Retornar(c) ==
    /\ chamadas[c].pendente
    /\ chamadas' = [chamadas EXCEPT
                       ![c].pendente = FALSE,
                       ![c].ret = calculadora(chamadas[c].call)]
    /\ UNCHANGED <<call, ret, session_state, food_diary, diario_out,
                   plano_out, profiles, plans, cookies, recipes, tela_out,
                   ia_out, receitas_out>>

FormsPuro ==
    FormsGkg({<<P75M, CUT, <<>>>>}, {<<Int2R(2), R(8, 10)>>})
        \cup FormsPct({<<P80M, MANUTENCAO, <<>>>>}, {<<30, 40, 30>>})

CalcularPuro == Calcular(FormsPuro)

ChamarCalculadora == \E c \in Chamadores : Chamar(c)

RetornarCalculadora == \E c \in Chamadores : Retornar(c)

NextPuro ==
    ChamarCalculadora \/ RetornarCalculadora \/ CalcularPuro \/ Recarregar

SpecPuro == Init /\ [][NextPuro]_vars

\* a step in which a calculator is entered or returns
PassoDeCalculadora ==
    \E c \in Chamadores : chamadas'[c].pendente # chamadas[c].pendente

MesmaChamada(a, b) ==
    /\ a[1] = b[1]
    /\ a = b

----------------------------------------------------------------------------
(* Photo analysis called directly and from the diary tab                    *)
(* (src/app_calorias.py:434-503, 928-1113).                                *)

ITEM_SEM_NOME == [ITEM_FRANGO EXCEPT !.food = ""]
ITEM_NAO_DICT == [ITEM_FRANGO EXCEPT !.dict = FALSE]
ITEM_GRAMAS_TEXTO == [ITEM_FRANGO EXCEPT !.grams_num = FALSE]
ITEM_DESCONHECIDO ==
    [ITEM_FRANGO EXCEPT !.food = "moqueca", !.grams = Int2R(-5),
                        !.confidence = Int2R(3)]

\* the responses of the vision model that the runs and calls meet
RespsIA ==
    {[RESP_BASE EXCEPT !.http = h] :
        h \in {"timeout", "erro_http", "corpo_invalido"}}
    \cup {[RESP_BASE EXCEPT !.campos = FALSE]}
    \cup {[RESP_BASE EXCEPT !.forma = f] :
            f \in {"nulo", "texto_com_chaves", "texto_sem_json"}}
    \cup {[RESP_BASE EXCEPT !.tipo = t] : t \in {"lista", "numero"}}
    \cup {[RESP_BASE EXCEPT !.items_tipo = t] :
            t \in {"ausente", "null", "string", "numero", "objeto"}}
    \cup {[RESP_BASE EXCEPT !.items = i] :
            i \in {<<>>, <<ITEM_SEM_NOME>>, <<ITEM_FRANGO, ITEM_NAO_DICT>>,
                   <<ITEM_GRAMAS_TEXTO>>, <<ITEM_FRANGO>>,
                   <<ITEM_DESCONHECIDO>>}}
    \cup {[RESP_BASE EXCEPT !.forma = "texto_com_json",
                            !.items = <<ITEM_FRANGO>>]}

\* the responses that the runs of the diary tab meet: one of each kind of
\* failure, and a plate that is recognised
RespsFoto ==
    {[RESP_BASE EXCEPT !.http = "timeout"],
     [RESP_BASE EXCEPT !.http = "erro_http"],
     [RESP_BASE EXCEPT !.campos = FALSE],
     [RESP_BASE EXCEPT !.forma = "texto_sem_json"],
     [RESP_BASE EXCEPT !.items_tipo = "ausente"],
     [RESP_BASE EXCEPT !.items = <<ITEM_FRANGO>>]}

\* ai_detect_foods_from_image_openrouter called on its own, with the secret
\* OPENROUTER_API_KEY unset, empty or set
CallDetect ==
    \E key \in {None, "", API_KEY} :
    \E resp \in IF key = API_KEY THEN RespsIA
                ELSE {[RESP_BASE EXCEPT !.items = <<ITEM_FRANGO>>]} :
        /\ call' = <<"ai_detect_foods_from_image_openrouter", key, resp>>
        /\ ret' = ai_detect_foods_from_image_openrouter(key, resp)
        /\ UNCHANGED app_vars

\* "Analisar com IA" (line 1110): review mode, an image in the uploader
AnalisarFoto ==
    /\ session_state.sb_session # None
    /\ \E resp \in RespsFoto, up \in BOOLEAN :
          ScriptRun([NoEvent EXCEPT !.botao = "Analisar com IA",
                                    !.ia_ativa = TRUE, !.foto = TRUE,
                                    !.upload_ok = up, !.resp = resp])

\* a run with the automatic mode ticked and an image in the uploader
\* (line 1107)
FotoAuto ==
    /\ session_state.sb_session # None
    /\ Len(food_diary) < MaxRows
    /\ \E resp \in RespsFoto, up \in BOOLEAN, ins \in BOOLEAN :
          ScriptRun([NoEvent EXCEPT !.ia_ativa = TRUE, !.foto = TRUE,
                                    !.auto = TRUE, !.upload_ok = up,
                                    !.resp = resp, !.insert_ok = ins])

NextIA == CallDetect \/ AnalisarFoto \/ FotoAuto \/ Recarregar

SpecIA == InitDiario /\ [][NextIA]_vars

\* the failure cases: no API key, HTTP error or timeout, a body or fields
\* other than expected, content that is not JSON and holds no JSON object,
\* JSON that is no object or has no "items" list
FalhaIA(key, resp) ==
    \/ key \in {None, ""}
    \/ resp.http # "ok"
    \/ ~resp.campos
    \/ resp.forma \in {"nulo", "texto_com_chaves", "texto_sem_json"}
    \/ resp.tipo # "objeto"
    \/ resp.items_tipo # "lista"

\* C15: food detection from a photo never raises to its caller and returns
\* an empty item list in every failure case (no API key, HTTP error or
\* timeout, a response without the expected fields, content that is not
\* JSON and holds no JSON object, JSON without an "items" list); the diary
\* tab then shows "nothing detected" and the run inserts no diary row.
C15_DetectionFailsEmpty ==
    /\ [](call[1] = "ai_detect_foods_from_image_openrouter" =>
            /\ ret.raised = None
            /\ FalhaIA(call[2], call[3]) => ret.val = <<>>)
    /\ [](ia_out.chamou => ia_out.exception = None)
    /\ [][(ia_out'.chamou /\ FalhaIA(API_KEY, ia_out'.resp)) =>
              /\ food_diary' = food_diary
              /\ ia_out'.items = <<>>
              /\ ia_out'.inseridos = 0
              /\ ia_out'.warnings = <<AVISO_IA>>]_vars

\* with one detected row already in the diary, an automatic analysis meets
\* a timeout: the warning is shown and the diary still has that one row
C15_Witness ==
    /\ Len(food_diary) = 1
    /\ ia_out.chamou
    /\ ia_out.auto
    /\ ia_out.resp.http = "timeout"
    /\ ia_out.warnings = <<AVISO_IA>>
    /\ diario_out.n_rows = 1

----------------------------------------------------------------------------
(* The recipes page opened by anonymous and signed-in visitors              *)
(* (src/pages/06_Receitas.py; the session comes from app_calorias.py).     *)

\* what the filter widgets can hold (lines 53-64) and whether the selects
\* of db_list_recipes succeed
FiltrosReceitas ==
    [search : {"", "frango"}, cat_sel : {{}, {"Cafe"}},
     only_quick : BOOLEAN,
     sort_opt : {"Relevancia", "Menor kcal", "Maior proteina"},
     db_ok : BOOLEAN]

\* the page is opened or one of its widgets is changed
AbrirReceitas ==
    /\ \E f \in FiltrosReceitas :
          receitas_out' = pagina_receitas(session_state, recipes, f)
    /\ UNCHANGED <<call, ret, session_state, food_diary, diario_out,
                   plano_out, profiles, plans, cookies, recipes, tela_out,
                   ia_out, chamadas>>

\* sign-in on the main page, by a user with no subscription or with the
\* plan "FIEL"
EntrarReceitas == EntrarCom({TRUE}, {"nenhuma", "FIEL"}, {TRUE})

InitReceitas == InitApp(SessaoVazia, PERFIL_NOVO)

NextReceitas == EntrarReceitas \/ AbrirReceitas

SpecReceitas == InitReceitas /\ [][NextReceitas]_vars

\* the recipe of the table with this id
Receita(id) == CHOOSE r \in {recipes[i] : i \in 1..Len(recipes)} : r.id = id

\* C16: for every recipe list and every session, a session whose plan_id
\* is not "FIEL" (or that has none) gets full content only for the recipes
\* flagged degustacao_gratis and every other listed recipe as a locked card
\* without ingredients or preparation; a "FIEL" session gets every listed
\* recipe unlocked; the unlocked and the locked lists are disjoint and
\* together are exactly the filtered list; a run that fails draws no card.
C16_RecipeGating ==
    LET o   == receitas_out
        vis == ids(o.visiveis)
        blq == ids(o.bloqueadas)
    IN  /\ ~o.rendeu => o.cards = <<>>
        /\ o.rendeu =>
              /\ vis \cap blq = {}
              /\ vis \cup blq = ids(o.rows)
              /\ Len(o.visiveis) + Len(o.bloqueadas) = Len(o.rows)
              /\ ids(o.rows) \subseteq ids(recipes)
              /\ o.plan_id = "FIEL" => blq = {}
              /\ o.plan_id # "FIEL" =>
                    \A id \in ids(o.rows) :
                        id \in vis <=> Receita(id).degustacao_gratis = "true"
              /\ Len(o.cards) = Len(o.rows)
              /\ \A i \in 1..Len(o.cards) :
                    LET c == o.cards[i]
                    IN  /\ c.locked <=> c.id \in blq
                        /\ c.locked =>
                              c.ingredientes = <<>> /\ c.preparo = <<>>
                        /\ ~c.locked =>
                              /\ c.ingredientes = Receita(c.id).ingredientes
                              /\ c.preparo = Receita(c.id).preparo

\* a signed-in user without subscription sees one free recipe in full and
\* two locked ones, one of them with a null flag
C16_Witness ==
    /\ session_state.sb_session # None
    /\ receitas_out.rendeu
    /\ receitas_out.plan_id = "DISCIPULO"
    /\ ids(receitas_out.visiveis) = {1}
    /\ ids(receitas_out.bloqueadas) = {2, 3}
    /\ \E i \in 1..Len(receitas_out.cards) :
          /\ receitas_out.cards[i].id = 3
          /\ receitas_out.cards[i].locked
          /\ receitas_out.cards[i].preparo = <<>>

----------------------------------------------------------------------------
(* Saving a computed plan (src/app_calorias.py:1791-1794, 1892-1944).      *)

\* the button "Salvar plano no Supabase" was drawn by the last run, so it
\* can be clicked (lines 1893-1896)
SalvarPlano ==
    /\ plano_out.salvar
    /\ \E ins \in BOOLEAN, ok \in ListaOks :
          ScriptRun([NoEvent EXCEPT !.botao = "Salvar plano",
                                    !.insert_ok = ins, !.lista_ok = ok])

NextSalvar ==
    CalcularDiario \/ SalvarPlano \/ Recarregar \/ AdicionarAlimentoRapido

SpecSalvar == InitDiario /\ [][NextSalvar]_vars

\* C17: after a logged-in user clicks "Calcular" and then clicks "Salvar
\* plano no Supabase", exactly one row is inserted into the plans store and
\* its BMR, TDEE, target calories, macro grams and water are those of that
\* calculation (or, the insert failing, the error is reported).
C17_SaveAfterCalcular ==
    [][(/\ plano_out.calcular
        /\ plano_out.salvar
        /\ tela_out'.botao = "Salvar plano")
          => \/ /\ Len(plans') = Len(plans) + 1
                /\ LET row == plans'[Len(plans')]
                       r   == plano_out.res
                   IN  /\ row.bmr_kcal = r.bmr
                       /\ row.tdee_kcal = r.tdee_val
                       /\ row.target_kcal = r.kcal_alvo
                       /\ row.protein_g = r.prot_g
                       /\ row.carbs_g = r.carb_g
                       /\ row.fats_g = r.gord_g
                       /\ RMul(row.water_l, Int2R(1000)) = r.agua
             \/ /\ plans' = plans
                /\ plano_out'.msgs = <<ERRO_SALVAR_PLANO>>]_vars

----------------------------------------------------------------------------
(* Adding a meal through the diary form (src/app_calorias.py:1116-1218).   *)

M_ARROZ ==
    [description |-> " arroz ", qty_g |-> Int2R(100), protein_g |-> Int2R(10),
     carbs_g |-> Int2R(20), fat_g |-> Int2R(5), kcal |-> Zero,
     photo_file |-> None]

\* what the form can be submitted with
Meals ==
    {M_ARROZ,
     [M_ARROZ EXCEPT !.kcal = Int2R(300)],
     [MEAL_NONE EXCEPT !.description = "  "],
     [MEAL_NONE EXCEPT !.fat_g = R(1, 2)],
     [MEAL_NONE EXCEPT !.kcal = Int2R(250), !.photo_file = "prato.jpg"]}

\* "Adicionar refeicao" (lines 1172-1218)
AdicionarRefeicao ==
    /\ session_state.sb_session # None
    /\ Len(food_diary) < MaxRows
    /\ \E m \in Meals, ins \in BOOLEAN, ok \in ListaOks :
       \E up \in IF m.photo_file = None THEN {TRUE} ELSE BOOLEAN :
          ScriptRun([NoEvent EXCEPT !.botao = "add_meal", !.meal = m,
                                    !.insert_ok = ins, !.lista_ok = ok,
                                    !.upload_ok = up])

FormsRefeicao ==
    FormsGkg({<<P75M, MANUTENCAO, <<>>>>}, {<<Int2R(2), R(8, 10)>>})

CalcularRefeicao == Calcular(FormsRefeicao)

NextRefeicao == AdicionarRefeicao \/ CalcularRefeicao \/ Recarregar

SpecRefeicao == InitDiario /\ [][NextRefeicao]_vars

\* 4p + 4c + 9g of the macros entered in the form
KcalDosMacros(m) ==
    RAdd(RAdd(RMul(Int2R(4), m.protein_g), RMul(Int2R(4), m.carbs_g)),
         RMul(Int2R(9), m.fat_g))

\* C18: when a meal is added through the diary form, the kcal stored in the
\* new row is the entered kcal if that is greater than 0, and otherwise
\* 4*protein_g + 4*carbs_g + 9*fat_g of the entered macros, a computed 0
\* being stored as null; a submission adds at most that one row.
C18_MealKcal ==
    [][tela_out'.botao = "add_meal" =>
          LET m == diario_out'.meal
          IN  \/ food_diary' = food_diary
              \/ /\ Len(food_diary') = Len(food_diary) + 1
                 /\ SubSeq(food_diary', 1, Len(food_diary)) = food_diary
                 /\ LET row == food_diary'[Len(food_diary')]
                    IN  IF RLt(Zero, m.kcal) THEN row.kcal = m.kcal
                        ELSE IF KcalDosMacros(m) = Zero
                        THEN row.kcal = NoneR
                        ELSE row.kcal = KcalDosMacros(m)]_vars

\* the diary holds a row with the 165 kcal computed from 10 g, 20 g and
\* 5 g, and the row just added with the entered 300 kcal
C18_Witness ==
    /\ tela_out.botao = "add_meal"
    /\ Len(food_diary) = 2
    /\ food_diary[1].kcal = Int2R(165)
    /\ food_diary[2].kcal = Int2R(300)
    /\ diario_out.meal.kcal = Int2R(300)

----------------------------------------------------------------------------
(* The onboarding gate, with profile reads that can fail                    *)
(* (src/app_calorias.py:641-652, 180-334, 669-704).                        *)

EntrarGate == EntrarCom({TRUE}, {"nenhuma"}, BOOLEAN)

ProximoGate == ProximoCom(BOOLEAN)

VoltarGate == VoltarCom(BOOLEAN)

ConcluirGate == ConcluirCom(BOOLEAN)

RecarregarGate == RecarregarCom(BOOLEAN)

NextGate ==
    EntrarGate \/ ProximoGate \/ VoltarGate \/ ConcluirGate \/ RecarregarGate

SpecGate == InitAppSpec /\ [][NextGate]_vars

\* C19: in every run where a session is active and the profile read does
\* not show onboarding_done, only the wizard is rendered and the run stops
\* before the login controls and the main tabs; the main tabs are rendered
\* for a logged-in user only in runs where the profile read shows
\* onboarding_done true.
C19_OnboardingGate ==
    /\ tela_out.wizard =>
          /\ ~tela_out.sidebar /\ ~tela_out.tabs
          /\ ~diario_out.visivel /\ ~plano_out.visivel
    /\ (tela_out.sessao /\ ~tela_out.onboarding_done) =>
          tela_out.wizard /\ ~tela_out.tabs
    /\ (session_state.sb_session # None /\ tela_out.tabs) =>
          tela_out.onboarding_done

----------------------------------------------------------------------------
\* the profiles row holds what the wizard collected in the session keys
\* ob_* (steps 2 and 3) and an obstacles text of step 8
PerfilColetado(prof, ob) ==
    /\ prof.full_name = (IF ob.name = "" THEN None ELSE ob.name)
    /\ prof.dob = <<"iso">> \o ob.dob
    /\ prof.sex = ob.sex
    /\ prof.height_cm = ob.h
    /\ prof.weight_kg = ob.w
    /\ prof.goal = ob.goal
    /\ prof.target_weight_kg = ob.target
    /\ prof.obstacles \in {None, "tempo"}

\* C20: when "Concluir" is clicked on step 8 of the wizard of a user whose
\* onboarding is not done, either the profile update succeeds, and the
\* profile gets onboarding_done = true together with the collected fields
\* and the wizard step is reset to 1, or the update raises, and an error is
\* shown, the profile is left as it was and the wizard stays at step 8.
C20_Concluir ==
    [][(/\ tela_out.wizard
        /\ tela_out.step = 8
        /\ ~profiles.onboarding_done
        /\ tela_out'.botao = "Concluir")
          => \/ /\ profiles'.onboarding_done
                /\ PerfilColetado(profiles', session_state.ob)
                /\ session_state'.ob_step = 1
             \/ /\ tela_out'.msgs = <<ERRO_SALVAR>>
                /\ profiles' = profiles
                /\ session_state'.ob_step = 8
                /\ tela_out'.wizard
                /\ tela_out'.step = 8]_vars

\* "Concluir" has stored Ana's answers and the step is back at 1
C20_Witness ==
    /\ tela_out.botao = "Concluir"
    /\ profiles.onboarding_done
    /\ profiles.full_name = "Ana"
    /\ profiles.goal = GANHAR_MASSA
    /\ profiles.weight_kg = Int2R(80)
    /\ profiles.obstacles = "tempo"
    /\ session_state.ob_step = 1

----------------------------------------------------------------------------
(* Sessions: login, logout, page reloads and the restore from the cookies, *)
(* for a user whose onboarding is done (src/app_calorias.py:347-396,       *)
(* 654-738).                                                               *)

\* the restore of lines 347-396 is attempted in a run that starts with the
\* session state ss0
TemTokens(ss0) ==
    /\ ss0.sb_session = None
    /\ cookies.sb_refresh_token # None
    /\ cookies.sb_access_token # None

\* what the restore can meet in such a run
RestoresDe(ss0) ==
    IF TemTokens(ss0) THEN {"ok", "raises", "sem_user"} ELSE {"ok"}

SubsSessao == {"nenhuma", "FIEL", "falha"}

\* "Entrar" with every outcome of the sign-in, of the subscription lookup
\* and of the restore that precedes them in the run
EntrarSessao ==
    /\ tela_out.sidebar
    /\ \E si \in {"sessao", "sem_sessao", "raises"}, rem \in BOOLEAN,
          sub \in SubsSessao, r \in RestoresDe(session_state) :
          AppRun([NoEvent EXCEPT !.botao = "Entrar", !.sign_in = si,
                                 !.remember = rem, !.sub = sub,
                                 !.email = "ana@x.org", !.restore = r],
                 NoEvent)

\* "Sair" (lines 706-721).  The cookie manager is a library outside the
\* repository: whether the run goes on to the tabs after lines 713-721
\* (a pop of a cookie that is not there, a second manager in one run) is
\* left open
SairSessao ==
    /\ tela_out.sidebar
    /\ \E so \in {"ok", "raises"}, segue \in BOOLEAN, sub \in SubsSessao,
          r \in RestoresDe(session_state) :
          AppRun([NoEvent EXCEPT !.botao = "Sair", !.sign_out = so,
                                 !.sair_segue = segue, !.sub = sub,
                                 !.restore = r],
                 NoEvent)

\* the page opened in a new browser session: the session state starts
\* empty, the cookies are those of the browser
AbrirPagina ==
    \E sub \in SubsSessao, r \in RestoresDe(SessaoVazia) :
        AppRunDe(SessaoVazia,
                 [NoEvent EXCEPT !.sub = sub, !.restore = r], NoEvent)

\* a rerun with no button clicked
RecarregarSessao ==
    \E sub \in SubsSessao, r \in RestoresDe(session_state) :
        AppRun([NoEvent EXCEPT !.sub = sub, !.restore = r], NoEvent)

InitSessao ==
    /\ InitApp(SessaoVazia, PERFIL_FEITO)
    /\ recipes = <<>>

NextSessao == EntrarSessao \/ SairSessao \/ AbrirPagina \/ RecarregarSessao

SpecSessao == InitSessao /\ [][NextSessao]_vars

\* the restore of the run that drew tela failed, so that lines 391-396
\* removed the three cookies
RestoreFalhou(tela) ==
    \/ tela.io.restore = "raises"
    \/ tela.io.restore = "ok" /\ tela.io.sub = "falha"

SemChavesDeSessao(ss) ==
    /\ ss.sb_session = None /\ ss.user_id = None /\ ss.user_email = None
    /\ ss.plan_id = None /\ ss.plan_name = None
    /\ ss.plan_inicio = None /\ ss.plan_fim = None

\* C21: a run in which "Sair" was clicked, whether sign_out succeeds or
\* raises, ends with none of sb_session, user_id, user_email, plan_id,
\* plan_name, plan_inicio, plan_fim in the session state and without the
\* two token cookies; the logout leaves the saved_email cookie as it was
\* (only a failed restore at the top of the same run removes it)
C21_Logout ==
    [][tela_out'.botao = "Sair" =>
         /\ SemChavesDeSessao(session_state')
         /\ cookies'.sb_refresh_token = None
         /\ cookies'.sb_access_token = None
         /\ cookies'.saved_email =
               IF RestoreFalhou(tela_out') THEN None ELSE cookies.saved_email
      ]_vars

\* a logged-in user with remembered login has clicked "Sair" and sign_out
\* raised: the e-mail cookie is still there
C21_Witness ==
    /\ tela_out.botao = "Sair"
    /\ tela_out.sessao
    /\ tela_out.io.sign_out = "raises"
    /\ session_state.sb_session = None
    /\ cookies.sb_refresh_token = None
    /\ cookies.saved_email = "ana@x.org"

TodosOsCookiesRemovidos(ck) ==
    /\ ck.sb_refresh_token = None
    /\ ck.sb_access_token = None
    /\ ck.saved_email = None

\* C22: the restore from the cookies runs only in a run that starts without
\* a session and with both token cookies; when a step of the restore raises
\* (and the login button is not clicked in that run), the run ends with the
\* three cookies removed and no session in the session state
C22_RestoreFromCookies ==
    [][/\ tela_out'.io.restore # None =>
             /\ ~tela_out'.io.sessao0
             /\ cookies.sb_refresh_token # None
             /\ cookies.sb_access_token # None
       /\ (RestoreFalhou(tela_out') /\ tela_out'.botao # "Entrar") =>
             /\ TodosOsCookiesRemovidos(cookies')
             /\ session_state'.sb_session = None
      ]_vars

\* the plan keys as lines 689-700 leave them for the subscriptions table sub
PlanoDaAssinatura(ss, sub) ==
    IF sub \in {"nenhuma", "falha"}
    THEN /\ ss.plan_id = "DISCIPULO"
         /\ ss.plan_inicio = None
         /\ ss.plan_fim = None
    ELSE /\ ss.plan_id = sub
         /\ ss.plan_name # None
         /\ ss.plan_inicio # None
         /\ ss.plan_fim # None

\* the restore at the top of the run changed neither session nor cookies
RestoreNeutro(tela) == tela.io.restore \in {None, "sem_user"}

MesmoPlano(a, b) ==
    /\ a.plan_id = b.plan_id /\ a.plan_name = b.plan_name
    /\ a.plan_inicio = b.plan_inicio /\ a.plan_fim = b.plan_fim

\* C23: a click on "Entrar" whose sign-in returns a session stores the
\* session and the user, and the plan of the active subscription, or
\* "DISCIPULO" with no start and end date when there is none or the lookup
\* fails; a sign-in that returns no session leaves user_id, the plan keys
\* and the cookies as they were; the cookies are written when, and only
\* when, "Lembrar meu login" is checked
C23_Login ==
    [][tela_out'.io.sign_in # None =>
         /\ tela_out'.io.sign_in = "sessao" =>
               /\ session_state'.sb_session # None
               /\ session_state'.user_id # None
               /\ PlanoDaAssinatura(session_state', tela_out'.io.sub)
               /\ tela_out'.io.remember =>
                     /\ cookies'.sb_refresh_token # None
                     /\ cookies'.sb_access_token # None
                     /\ cookies'.saved_email # None
               /\ (~tela_out'.io.remember /\ RestoreNeutro(tela_out')) =>
                     cookies' = cookies
               /\ ~tela_out'.io.remember =>
                     /\ cookies'.sb_refresh_token
                           \in {None, cookies.sb_refresh_token}
                     /\ cookies'.sb_access_token
                           \in {None, cookies.sb_access_token}
         /\ (tela_out'.io.sign_in = "sem_sessao" /\ RestoreNeutro(tela_out'))
               => /\ session_state'.sb_session = None
                  /\ session_state'.user_id = session_state.user_id
                  /\ MesmoPlano(session_state', session_state)
                  /\ cookies' = cookies
      ]_vars

\* a first login without "Lembrar meu login" whose subscription lookup
\* failed: the default plan, and no cookie
C23_Witness ==
    /\ tela_out.botao = "Entrar"
    /\ tela_out.io.sign_in = "sessao"
    /\ tela_out.io.sub = "falha"
    /\ ~tela_out.io.remember
    /\ session_state.plan_id = "DISCIPULO"
    /\ session_state.plan_fim = None
    /\ cookies = COOKIES_VAZIOS

----------------------------------------------------------------------------
(* Review mode of the photo analysis (src/app_calorias.py:932-1111).       *)

\* the button under the review editor (line 1051), which the last run drew;
\* the image is still in the uploader and the automatic mode still unticked
AdicionarItens ==
    /\ session_state.sb_session # None
    /\ ia_out.editor
    /\ \E resp \in RespsFoto, up \in BOOLEAN, ins \in BOOLEAN :
          ScriptRun([NoEvent EXCEPT !.botao = "Adicionar itens",
                                    !.ia_ativa = TRUE, !.foto = TRUE,
                                    !.upload_ok = up, !.resp = resp,
                                    !.insert_ok = ins])

NextRevisao ==
    \/ AnalisarFoto \/ AdicionarItens \/ FotoAuto
    \/ AdicionarAlimentoRapido \/ Recarregar

SpecRevisao == InitDiario /\ [][NextRevisao]_vars

\* C24: with the automatic mode unticked, the run of "Analisar com IA"
\* inserts no diary row, and the click on "Adicionar itens ao diario" that
\* follows inserts one row per reviewed item (unless the run reports a
\* failure)
C24_ReviewThenAdd ==
    [][/\ tela_out'.botao = "Analisar com IA" => food_diary' = food_diary
       /\ (tela_out'.botao = "Adicionar itens" /\ ia_out.editor
              /\ ~ia_out'.erro /\ ia_out'.exception = None) =>
             Len(food_diary') = Len(food_diary) + Len(ia_out.items)
      ]_vars

----------------------------------------------------------------------------
(* Navigation of the onboarding wizard (src/app_calorias.py:180-184,       *)
(* 294-334).                                                               *)

\* the session keys ob_* hold what the inputs of the current step held,
\* for some values the widgets can hold and some outcome of the profile read
GuardouOsCampos(ss, prof, ss2) ==
    \E w \in Ws, ok \in BOOLEAN :
        ss2.ob = ob_locais(ss, le_perfil(prof, ok), ss.ob_step, w)

\* C25: a run started by a click on "Voltar", "Proximo" or "Concluir" ends
\* with ob_step in 1..8; "Voltar" lowers ob_step by one, from a step above
\* 1, and leaves the stored fields alone; "Proximo" raises it by one, from a
\* step below 8, and stores every field.  (A click is lost, and changes
\* nothing, when the run no longer draws the wizard: that happens only to a
\* user whose profiles row already has onboarding_done.)
C25_WizardSteps ==
    [][tela_out'.botao \in {"Voltar", "Proximo", "Concluir"} =>
         LET perdido == /\ session_state'.ob_step = session_state.ob_step
                        /\ session_state'.ob = session_state.ob
                        /\ profiles.onboarding_done
         IN  /\ session_state'.ob_step \in 1..8
             /\ tela_out'.botao = "Voltar" =>
                   \/ /\ session_state.ob_step > 1
                      /\ session_state'.ob_step = session_state.ob_step - 1
                      /\ session_state'.ob = session_state.ob
                   \/ perdido
             /\ tela_out'.botao = "Proximo" =>
                   \/ /\ session_state.ob_step < 8
                      /\ session_state'.ob_step = session_state.ob_step + 1
                      /\ GuardouOsCampos(session_state, profiles,
                                         session_state')
                   \/ perdido
      ]_vars

\* the user went forward to step 3 with the fields of step 2 stored, then
\* back to step 2: the stored fields are still those of the first visit
C25_Witness ==
    /\ tela_out.wizard
    /\ tela_out.botao = "Voltar"
    /\ session_state.ob_step = 2
    /\ session_state.ob.saved
    /\ session_state.ob.name = "Ana"

\* C26: at the end of every run, a session state that holds a session also
\* holds user_id, user_email, plan_id and plan_name (plan_inicio and
\* plan_fim being set, to a date or to None, together with them)
C26_SessionInvariant ==
    session_state.sb_session # None =>
        /\ session_state.user_id # None
        /\ session_state.user_email # None
        /\ session_state.plan_id # None
        /\ session_state.plan_name # None

----------------------------------------------------------------------------
(* Progress bars of the diary against the targets stored by "Calcular"     *)
(* (src/app_calorias.py:1255-1277, 1811-1824).                             *)

FracaoValida(x) == x # NoneR /\ RLe(Zero, x) /\ RLe(x, Int2R(1))

\* C27: whenever the diary compares the day's totals with the targets that
\* "Calcular" stored in the session, the run raises no exception there and
\* the four fractions are defined and lie between 0 and 1
C27_ProgressFractions ==
    diario_out.usa_metas =>
        /\ diario_out.exception = None
        /\ Len(diario_out.progresso) = 4
        /\ \A i \in 1..4 : FracaoValida(diario_out.progresso[i])

----------------------------------------------------------------------------
(* The photo of a meal (src/app_calorias.py:1174-1218).                    *)

\* C28: a row written by the meal form has a photo_path only when the
\* upload of the photo succeeded; with no photo, or with an upload that
\* failed, the row is written with photo_path None
C28_PhotoPath ==
    [][(tela_out'.botao = "add_meal"
           /\ Len(food_diary') = Len(food_diary) + 1) =>
          LET row == food_diary'[Len(food_diary')]
          IN  /\ row.photo_path # None => diario_out'.foto = "ok"
              /\ diario_out'.foto \in {None, "falhou"} =>
                    row.photo_path = None
      ]_vars

----------------------------------------------------------------------------
(* Calories of the macros in the g/kg method (src/app_calorias.py:1811-    *)
(* 1818, 1840-1842).                                                       *)

SomaKcal(k) == RAdd(RAdd(k.kcal_p, k.kcal_c), k.kcal_f)

\* C29: in a plan computed with the g/kg method, protein_g*4 + carb_g*4 +
\* fat_g*9 equals the target calories when the leftover is zero or
\* positive, and exceeds them by exactly the absolute value of the leftover
\* when it is negative
C29_GkgKcalSum ==
    (CalculouGkg(plano_out) /\ plano_out.exception = None) =>
        LET r == plano_out.res
        IN  /\ r.kcal.kcal_p = RMul(r.prot_g, Int2R(4))
            /\ r.kcal.kcal_c = RMul(r.carb_g, Int2R(4))
            /\ r.kcal.kcal_f = RMul(r.gord_g, Int2R(9))
            /\ IF RLe(Zero, r.kcal_rest)
               THEN SomaKcal(r.kcal) = r.kcal_alvo
               ELSE /\ SomaKcal(r.kcal) = RAdd(r.kcal_alvo, RAbs(r.kcal_rest))
                    /\ RLt(r.kcal_alvo, SomaKcal(r.kcal))

\* a plan whose protein and fat alone exceed the target
C29_Witness ==
    /\ CalculouGkg(plano_out)
    /\ plano_out.exception = None
    /\ RLt(plano_out.res.kcal_rest, Zero)
    /\ plano_out.res.carb_g = Zero
    /\ RLt(plano_out.res.kcal_alvo, SomaKcal(plano_out.res.kcal))

====
